---------------------------- MODULE Spec2Model ----------------------------
(***************************************************************************)
(* Function declarations of the SkSL front end: signature validation,      *)
(* entry-point conventions, overload lookup with generic type families,    *)
(* and the registration of declarations in a symbol table                  *)
(* (FunctionDeclaration::Convert and its helpers).                         *)
(***************************************************************************)
EXTENDS Integers, Sequences, FiniteSets, TLC

VARIABLES
    config,    \* the ProgramConfig of the compilation: fKind, fIsBuiltinCode, strictES2Mode
    symbols,   \* the SymbolTable: name -> nothing, a non-function symbol, or an overload chain
    owned,     \* parameter Variables whose ownership the symbol table has taken
    heap,      \* the places a parameter Variable can be allocated at
    last       \* the most recent operation: its inputs, its result and the state it started from

vars == <<config, symbols, owned, heap, last>>

(***************************************************************************)
(* Bounds of the model.                                                    *)
(***************************************************************************)
\* longest candidate parameter list
MaxParams == 2
\* number of parameter Variables that can be alive at once
MaxIds == 2
\* longest parameter list where three parameters of a colour type are declared
MaxRoleParams == 3
\* the same, where lists of two parameters are declared again
MaxPairIds == 4

(***************************************************************************)
(* The Type abstraction consumed by the subsystem.                         *)
(***************************************************************************)
ScalarTypes == {"float", "half", "int"}
VectorTypes == {"float2", "float3", "float4", "half2", "half4"}
StructTypes == {"Attributes", "Varyings", "S"}
ArrayTypes == {"float[2]"}
OpaqueTypes == {"sampler2D", "shader", "texture2D"}
GenericTypes == {"$genType", "$genHType", "$genFHType", "$genVType"}

\* Type::componentType
componentType(t) ==
    CASE t \in {"float2", "float3", "float4", "float[2]"} -> "float"
      [] t \in {"half2", "half4"} -> "half"
      [] OTHER -> t

\* Type::columns
columns(t) ==
    CASE t \in {"float2", "half2"} -> 2
      [] t = "float3" -> 3
      [] t \in {"float4", "half4"} -> 4
      [] OTHER -> 1

\* Type::isGeneric
isGeneric(t) == t \in GenericTypes

\* Type::coercibleTypes: the ordered family of a generic type; the family of
\* $genFHType lists a type ahead of one that coerces to it, the family of
\* $genVType is the float vectors
coercibleTypes(t) ==
    CASE t = "$genType" -> <<"float", "float2", "float3">>
      [] t = "$genHType" -> <<"half", "half2">>
      [] t = "$genFHType" -> <<"float2", "half2">>
      [] t = "$genVType" -> <<"float2", "float3", "float4">>
      [] OTHER -> <<>>

\* Type::matches
matches(t, u) == t = u

\* Type::isArray
isArray(t) == t \in ArrayTypes

\* Type::isOrContainsArray (the struct S has an array field)
isOrContainsArray(t) == t \in ArrayTypes \/ t = "S"

\* Type::isOpaque
isOpaque(t) == t \in OpaqueTypes

\* Type::isEffectChild
isEffectChild(t) == t = "shader"

\* Type::typeKind() == Type::TypeKind::kTexture
isTexture(t) == t = "texture2D"

\* Type::isStruct
isStruct(t) == t \in StructTypes

\* the rank of a number type within its number kind
priority(t) == IF t = "half" THEN 0 ELSE 1

\* Type::numberKind
numberKind(t) == IF t = "int" THEN "signed" ELSE "float"

\* Type::canCoerceTo: equal types are free; vectors coerce componentwise when
\* their sizes agree; numbers of one kind widen freely and narrow on request;
\* a generic type coerces to the members of its family
canCoerceTo(t, u, allowNarrowing) ==
    LET numbers(a, b) ==
            /\ a \in ScalarTypes
            /\ b \in ScalarTypes
            /\ numberKind(a) = numberKind(b)
            /\ (priority(b) >= priority(a) \/ allowNarrowing)
    IN  \/ matches(t, u)
        \/ /\ t \in VectorTypes
           /\ u \in VectorTypes
           /\ columns(t) = columns(u)
           /\ numbers(componentType(t), componentType(u))
        \/ numbers(t, u)
        \/ /\ isGeneric(t)
           /\ \E i \in DOMAIN coercibleTypes(t) : matches(coercibleTypes(t)[i], u)

(***************************************************************************)
(* Modifiers: a set of flags and the layout's builtin id.                  *)
(***************************************************************************)
SK_MAIN_COORDS_BUILTIN == "SK_MAIN_COORDS_BUILTIN"
SK_INPUT_COLOR_BUILTIN == "SK_INPUT_COLOR_BUILTIN"
SK_DEST_COLOR_BUILTIN == "SK_DEST_COLOR_BUILTIN"
\* Layout::fBuiltin of a parameter no role was given to
NoBuiltin == "none"

\* kBuiltinColorIDs with a third slot
kBuiltinColorIDs_three ==
    <<SK_INPUT_COLOR_BUILTIN, SK_DEST_COLOR_BUILTIN, SK_DEST_COLOR_BUILTIN>>

\* kBuiltinColorIDs: the first colour parameter is the input colour, the second the destination
kBuiltinColorIDs == <<SK_INPUT_COLOR_BUILTIN, SK_DEST_COLOR_BUILTIN>>

\* ProgramConfig::IsRuntimeEffect
IsRuntimeEffect(kind) ==
    kind \in {"RuntimeColorFilter", "RuntimeShader", "PrivateRuntimeShader",
              "RuntimeBlender", "MeshVertex", "MeshFragment"}

\* ProgramConfig::IsFragment
IsFragment(kind) == kind \in {"Fragment", "GraphiteFragment"}

\* the error Modifiers::checkPermitted reports
PermissionError == "modifier not permitted here"

\* Modifiers::checkPermitted: one error when a flag outside the permitted set is present
checkPermitted(flags, permitted) ==
    IF flags \subseteq permitted THEN <<>> ELSE <<PermissionError>>

\* check_modifiers reporting inline with noinline without failing
check_modifiers_lenient(ctx, flags) ==
    [ok |-> TRUE,
     errors |-> IF {"inline", "noinline"} \subseteq flags
                    THEN <<"functions cannot be both 'inline' and 'noinline'">>
                    ELSE <<>>]

\* check_modifiers: the permission errors are reported and the check goes on;
\* only inline together with noinline makes it fail
check_modifiers(ctx, flags) ==
    LET permitted == {"has_side_effects", "inline", "noinline"}
                        \cup (IF ctx.fIsBuiltinCode THEN {"es3"} ELSE {})
        perm == checkPermitted(flags, permitted)
    IN  IF {"inline", "noinline"} \subseteq flags
            THEN [ok |-> FALSE,
                  errors |-> Append(perm, "functions cannot be both 'inline' and 'noinline'")]
            ELSE [ok |-> TRUE, errors |-> perm]

\* check_return_type refusing opaque types in builtin code as well
check_return_type_noOpaque(ctx, returnType) ==
    IF isArray(returnType)
        THEN [ok |-> FALSE, errors |-> <<"functions may not return type">>]
    ELSE IF ctx.strictES2Mode /\ isOrContainsArray(returnType)
        THEN [ok |-> FALSE, errors |-> <<"functions may not return structs containing arrays">>]
    ELSE IF isOpaque(componentType(returnType))
        THEN [ok |-> FALSE, errors |-> <<"functions may not return opaque type">>]
    ELSE [ok |-> TRUE, errors |-> <<>>]

\* check_return_type
check_return_type(ctx, returnType) ==
    IF isArray(returnType)
        THEN [ok |-> FALSE, errors |-> <<"functions may not return type">>]
    ELSE IF ctx.strictES2Mode /\ isOrContainsArray(returnType)
        THEN [ok |-> FALSE, errors |-> <<"functions may not return structs containing arrays">>]
    ELSE IF ~ctx.fIsBuiltinCode /\ isOpaque(componentType(returnType))
        THEN [ok |-> FALSE, errors |-> <<"functions may not return opaque type">>]
    ELSE [ok |-> TRUE, errors |-> <<>>]

\* typeIsValidForColor accepting every type
typeIsValidForColor_any(t) == TRUE

\* typeIsValidForColor
typeIsValidForColor(t) == matches(t, "half4") \/ matches(t, "float4")

\* normalised_flags leaving the flags as written
normalised_flags_kept(flags) == flags

\* the flags once the implicit 'in' is removed: 'in' without 'out' is dropped
normalised_flags(flags) ==
    IF flags \cap {"out", "in"} = {"in"} THEN flags \ {"out", "in"} ELSE flags

\* one pass of the loop body of check_parameters over the parameter p, with
\* builtinColorIndex colour roles already given out
check_parameter(ctx, p, isMain, builtinColorIndex) ==
    LET permittedFlags ==
            {"const", "in"}
              \cup (IF ~isOpaque(p.type) THEN {"out"} ELSE {})
              \cup (IF isTexture(p.type) THEN {"readonly", "writeonly"} ELSE {})
        perm == checkPermitted(p.flags, permittedFlags)
        flags == normalised_flags(p.flags)
        runtime == /\ isMain
                   /\ IsRuntimeEffect(ctx.fKind)
                   /\ ctx.fKind # "MeshFragment"
                   /\ ctx.fKind # "MeshVertex"
        coords == /\ isMain
                  /\ matches(p.type, "float2")
                  /\ (runtime \/ IsFragment(ctx.fKind))
        color == /\ runtime
                 /\ ~matches(p.type, "float2")
                 /\ typeIsValidForColor(p.type)
                 /\ builtinColorIndex < Len(kBuiltinColorIDs)
    IN  IF isEffectChild(p.type) /\ ~ctx.fIsBuiltinCode
            THEN [ok |-> FALSE,
                  errors |-> Append(perm, "parameters of this type not allowed"),
                  param |-> p,
                  builtinColorIndex |-> builtinColorIndex]
            ELSE [ok |-> TRUE,
                  errors |-> perm,
                  param |-> [p EXCEPT !.flags = flags,
                                      !.builtin =
                                          IF coords THEN SK_MAIN_COORDS_BUILTIN
                                          ELSE IF color
                                              THEN kBuiltinColorIDs[builtinColorIndex + 1]
                                              ELSE @],
                  builtinColorIndex |->
                      IF color THEN builtinColorIndex + 1 ELSE builtinColorIndex]

RECURSIVE check_parameters_loop(_, _, _, _, _, _, _)
\* the loop of check_parameters from index i on; done holds the parameters
\* already visited, as the loop left them
check_parameters_loop(ctx, parameters, isMain, i, builtinColorIndex, done, errors) ==
    IF i > Len(parameters)
        THEN [ok |-> TRUE, errors |-> errors, parameters |-> done]
        ELSE LET r == check_parameter(ctx, parameters[i], isMain, builtinColorIndex)
             IN  IF ~r.ok
                    THEN [ok |-> FALSE,
                          errors |-> errors \o r.errors,
                          parameters |-> done \o SubSeq(parameters, i, Len(parameters))]
                    ELSE check_parameters_loop(ctx, parameters, isMain, i + 1,
                                               r.builtinColorIndex,
                                               Append(done, r.param),
                                               errors \o r.errors)

\* check_parameters counting on from the colour roles the parameters already carry
check_parameters_resumed(ctx, parameters, isMain) ==
    check_parameters_loop(ctx, parameters, isMain, 1,
                          Cardinality({i \in DOMAIN parameters :
                                          parameters[i].builtin
                                            \in {SK_INPUT_COLOR_BUILTIN, SK_DEST_COLOR_BUILTIN}}),
                          <<>>, <<>>)

\* check_parameters: checks, normalises and tags the candidate's parameters
check_parameters(ctx, parameters, isMain) ==
    check_parameters_loop(ctx, parameters, isMain, 1, 0, <<>>, <<>>)

\* paramIsCoords taking a float2 tagged as the coordinates with any flags
paramIsCoords_anyFlags(p) ==
    /\ matches(p.type, "float2")
    /\ p.builtin = SK_MAIN_COORDS_BUILTIN

\* paramIsCoords
paramIsCoords(p) ==
    /\ matches(p.type, "float2")
    /\ p.flags = {}
    /\ p.builtin = SK_MAIN_COORDS_BUILTIN

\* paramIsBuiltinColor
paramIsBuiltinColor(p, builtinID) ==
    /\ typeIsValidForColor(p.type)
    /\ p.flags = {}
    /\ p.builtin = builtinID

\* paramIsInputColor
paramIsInputColor(p) == paramIsBuiltinColor(p, SK_INPUT_COLOR_BUILTIN)

\* paramIsDestColor
paramIsDestColor(p) == paramIsBuiltinColor(p, SK_DEST_COLOR_BUILTIN)

\* paramIsInAttributes (typeIsValidForAttributes: a struct named Attributes)
paramIsInAttributes(p) == isStruct(p.type) /\ p.type = "Attributes" /\ p.flags = {}

\* paramIsOutVaryings taking a Varyings struct with any flags
paramIsOutVaryings_anyFlags(p) == isStruct(p.type) /\ p.type = "Varyings"

\* paramIsOutVaryings (typeIsValidForVaryings: a struct named Varyings)
paramIsOutVaryings(p) == isStruct(p.type) /\ p.type = "Varyings" /\ p.flags = {"out"}

\* paramIsInVaryings
paramIsInVaryings(p) == isStruct(p.type) /\ p.type = "Varyings" /\ p.flags = {}

\* paramIsOutColor
paramIsOutColor(p) == typeIsValidForColor(p.type) /\ p.flags = {"out"}

\* check_main_signature: the shape rule of the program kind, or "" when it is met
main_signature_error(kind, returnType, parameters) ==
    LET n == Len(parameters)
    IN  CASE kind = "RuntimeColorFilter" ->
                IF ~typeIsValidForColor(returnType)
                    THEN "'main' must return: 'vec4', 'float4', or 'half4'"
                ELSE IF ~(n = 1 /\ paramIsInputColor(parameters[1]))
                    THEN "'main' parameter must be 'vec4', 'float4', or 'half4'"
                ELSE ""
          [] kind \in {"RuntimeShader", "PrivateRuntimeShader"} ->
                IF ~typeIsValidForColor(returnType)
                    THEN "'main' must return: 'vec4', 'float4', or 'half4'"
                ELSE IF ~(\/ n = 1 /\ paramIsCoords(parameters[1])
                          \/ /\ n = 2
                             /\ paramIsCoords(parameters[1])
                             /\ paramIsInputColor(parameters[2]))
                    THEN "'main' parameters must be (float2, (vec4|float4|half4)?)"
                ELSE ""
          [] kind = "RuntimeBlender" ->
                IF ~typeIsValidForColor(returnType)
                    THEN "'main' must return: 'vec4', 'float4', or 'half4'"
                ELSE IF ~(/\ n = 2
                          /\ paramIsInputColor(parameters[1])
                          /\ paramIsDestColor(parameters[2]))
                    THEN "'main' parameters must be (vec4|float4|half4, vec4|float4|half4)"
                ELSE ""
          [] kind = "MeshVertex" ->
                IF ~matches(returnType, "float2")
                    THEN "'main' must return: 'vec2' or 'float2'"
                ELSE IF ~(/\ n = 2
                          /\ paramIsInAttributes(parameters[1])
                          /\ paramIsOutVaryings(parameters[2]))
                    THEN "'main' parameters must be (Attributes, out Varyings"
                ELSE ""
          [] kind = "MeshFragment" ->
                IF ~matches(returnType, "float2") /\ ~matches(returnType, "void")
                    THEN "'main' must return: 'vec2', 'float2', 'or' 'void'"
                ELSE IF ~(\/ n = 1 /\ paramIsInVaryings(parameters[1])
                          \/ /\ n = 2
                             /\ paramIsInVaryings(parameters[1])
                             /\ paramIsOutColor(parameters[2]))
                    THEN "'main' parameters must be (Varyings, (out (half4|float4))?)"
                ELSE ""
          [] kind = "Generic" -> ""
          [] kind \in {"Fragment", "GraphiteFragment"} ->
                IF ~(n = 0 \/ (n = 1 /\ paramIsCoords(parameters[1])))
                    THEN "shader 'main' must be main() or main(float2)"
                ELSE ""
          [] kind \in {"Vertex", "GraphiteVertex", "Compute"} ->
                IF ~matches(returnType, "void")
                    THEN "'main' must return 'void'"
                ELSE IF n # 0
                    THEN "shader 'main' must have zero parameters"
                ELSE ""

\* check_main_signature
check_main_signature(ctx, returnType, parameters) ==
    LET e == main_signature_error(ctx.fKind, returnType, parameters)
    IN  [ok |-> e = "", errors |-> IF e = "" THEN <<>> ELSE <<e>>]

(***************************************************************************)
(* Generic resolution.                                                     *)
(***************************************************************************)
\* the value find_generic_index returns when no family member fits
NoIndex == -1

RECURSIVE find_generic_index_from(_, _, _, _)
\* the loop of find_generic_index from the 0-based index on
find_generic_index_from(concreteType, genericTypes, index, allowNarrowing) ==
    IF index >= Len(genericTypes)
        THEN NoIndex
    ELSE IF canCoerceTo(concreteType, genericTypes[index + 1], allowNarrowing)
        THEN index
    ELSE find_generic_index_from(concreteType, genericTypes, index + 1, allowNarrowing)

\* find_generic_index preferring the last family member the type coerces to
find_generic_index_last(concreteType, genericType, allowNarrowing) ==
    LET genericTypes == coercibleTypes(genericType)
        hits == {i \in 1..Len(genericTypes) :
                    canCoerceTo(concreteType, genericTypes[i], allowNarrowing)}
    IN  IF hits = {}
            THEN NoIndex
            ELSE (CHOOSE i \in hits : \A j \in hits : i >= j) - 1

\* find_generic_index: the 0-based index of the first family member the
\* concrete type coerces to, or -1
find_generic_index(concreteType, genericType, allowNarrowing) ==
    find_generic_index_from(concreteType, coercibleTypes(genericType), 0, allowNarrowing)

\* type_generically_matches looking at the first member of the family alone
type_generically_matches_first(concreteType, maybeGenericType) ==
    IF isGeneric(maybeGenericType)
        THEN canCoerceTo(concreteType, coercibleTypes(maybeGenericType)[1], FALSE)
        ELSE matches(concreteType, maybeGenericType)

\* type_generically_matches accepting every return type
type_generically_matches_any(concreteType, maybeGenericType) == TRUE

\* type_generically_matches
type_generically_matches(concreteType, maybeGenericType) ==
    IF isGeneric(maybeGenericType)
        THEN find_generic_index(concreteType, maybeGenericType, FALSE) # NoIndex
        ELSE matches(concreteType, maybeGenericType)

RECURSIVE consistent_generic_index(_, _, _, _)
\* the first loop of parameters_match from index i on: ok with the generic
\* index all generic parameters of otherParams agree on (-1 when there is
\* none), or not ok when one has no index or two of them disagree
consistent_generic_index(params, otherParams, i, genericIndex) ==
    IF i > Len(params)
        THEN [ok |-> TRUE, genericIndex |-> genericIndex]
    ELSE IF ~isGeneric(otherParams[i].type)
        THEN consistent_generic_index(params, otherParams, i + 1, genericIndex)
    ELSE LET genericIndexForThisParam ==
                find_generic_index(params[i].type, otherParams[i].type, FALSE)
         IN  IF genericIndexForThisParam = NoIndex
                THEN [ok |-> FALSE, genericIndex |-> genericIndex]
             ELSE IF genericIndex # NoIndex /\ genericIndex # genericIndexForThisParam
                THEN [ok |-> FALSE, genericIndex |-> genericIndex]
             ELSE consistent_generic_index(params, otherParams, i + 1,
                                           genericIndexForThisParam)

\* parameters_match without its second loop: a candidate type need only
\* coerce to the family member, not be it
parameters_match_coercible(params, otherParams) ==
    /\ Len(params) = Len(otherParams)
    /\ consistent_generic_index(params, otherParams, 1, NoIndex).ok

\* parameters_match comparing the lengths of the lists alone
parameters_match_lengths(params, otherParams) == Len(params) = Len(otherParams)

\* parameters_match: params against the parameters of an earlier declaration
parameters_match(params, otherParams) ==
    IF Len(params) # Len(otherParams)
        THEN FALSE
        ELSE LET g == consistent_generic_index(params, otherParams, 1, NoIndex)
             IN  /\ g.ok
                 /\ \A i \in 1..Len(params) :
                        LET otherParamType ==
                                IF isGeneric(otherParams[i].type)
                                    THEN coercibleTypes(otherParams[i].type)[g.genericIndex + 1]
                                    ELSE otherParams[i].type
                        IN  matches(params[i].type, otherParamType)

(***************************************************************************)
(* The symbol table and the existing-declaration lookup.                   *)
(***************************************************************************)
\* the names declarations are made under
Names == {"foo", "main", "$foo", "foo_", "foo_x"}

\* SymbolTable::operator[] finds nothing under a name
NoSymbol == [kind |-> "none", chain |-> <<>>]

\* a symbol that is not a function declaration (a variable)
OtherSymbol == [kind |-> "variable", chain |-> <<>>]

\* first_match letting the last matching declaration of the chain decide
first_match_last(chain, parameters) ==
    LET hits == {i \in 1..Len(chain) : parameters_match(parameters, chain[i].parameters)}
    IN  IF hits = {} THEN 0 ELSE CHOOSE i \in hits : \A j \in hits : i >= j

\* first_match looking at the head of the overload chain only
first_match_head(chain, parameters) ==
    IF chain # <<>> /\ parameters_match(parameters, chain[1].parameters) THEN 1 ELSE 0

\* the position in the overload chain of the declaration the candidate
\* redeclares; 0 when no declaration of the chain matches its parameters
first_match(chain, parameters) ==
    LET hits == {i \in 1..Len(chain) : parameters_match(parameters, chain[i].parameters)}
    IN  IF hits = {} THEN 0 ELSE CHOOSE i \in hits : \A j \in hits : i <= j

\* is_function taking every symbol for a function declaration
is_function_any(entry) == TRUE

\* entry->is<FunctionDeclaration>()
is_function(entry) == entry.kind = "function"

\* modifiers_differ finding no difference
modifiers_differ_never(parameters, otherParameters) == {}

\* the positions at which the modifiers of the candidate's parameters differ
\* from those of the existing declaration's
modifiers_differ(parameters, otherParameters) ==
    {i \in 1..Len(parameters) :
        <<parameters[i].flags, parameters[i].builtin>>
            # <<otherParameters[i].flags, otherParameters[i].builtin>>}

\* has_body_or_builtin looking at the body only
has_body_only(other) == other.definition

\* other->definition() || other->isBuiltin()
has_body_or_builtin(other) == other.definition \/ other.builtin

\* find_existing_declaration never handing back the declaration it found
find_existing_declaration_fresh(syms, name, parameters, returnType) ==
    LET entry == syms[name]
        k == first_match(entry.chain, parameters)
        other == entry.chain[k]
        failed(error) == [ok |-> FALSE, errors |-> <<error>>, existing |-> 0]
    IN  IF entry.kind = "none" THEN [ok |-> TRUE, errors |-> <<>>, existing |-> 0]
        ELSE IF ~is_function(entry) THEN failed("symbol was already defined")
        ELSE IF k = 0 THEN [ok |-> TRUE, errors |-> <<>>, existing |-> 0]
        ELSE IF ~type_generically_matches(returnType, other.returnType)
            THEN failed("differ only in return type")
        ELSE IF modifiers_differ(parameters, other.parameters) # {}
            THEN failed("modifiers differ between declaration and definition")
        ELSE IF has_body_or_builtin(other) THEN failed("duplicate definition")
        ELSE [ok |-> TRUE, errors |-> <<>>, existing |-> 0]

\* find_existing_declaration: ok and the position of the existing
\* declaration (0 when there is none), or not ok and the error
find_existing_declaration(syms, name, parameters, returnType) ==
    LET entry == syms[name]
        k == first_match(entry.chain, parameters)
        other == entry.chain[k]
    IN  IF entry.kind = "none"
            THEN [ok |-> TRUE, errors |-> <<>>, existing |-> 0]
        ELSE IF ~is_function(entry)
            THEN [ok |-> FALSE, errors |-> <<"symbol was already defined">>, existing |-> 0]
        ELSE IF k = 0
            THEN [ok |-> TRUE, errors |-> <<>>, existing |-> 0]
        ELSE IF ~type_generically_matches(returnType, other.returnType)
            THEN [ok |-> FALSE, errors |-> <<"differ only in return type">>, existing |-> 0]
        ELSE IF modifiers_differ(parameters, other.parameters) # {}
            THEN [ok |-> FALSE,
                  errors |-> <<"modifiers differ between declaration and definition">>,
                  existing |-> 0]
        ELSE IF has_body_or_builtin(other)
            THEN [ok |-> FALSE, errors |-> <<"duplicate definition">>, existing |-> 0]
        ELSE [ok |-> TRUE, errors |-> <<>>, existing |-> k]

(***************************************************************************)
(* FunctionDeclaration::Convert.                                           *)
(***************************************************************************)
\* convert_checks consulting the symbol table ahead of the signature checks
convert_checks_lookup_first(ctx, syms, name, modifiers, parameters, returnType) ==
    LET m == check_modifiers(ctx, modifiers)
        r == check_return_type(ctx, returnType)
        p == check_parameters(ctx, parameters, name = "main")
        s == IF name = "main"
                THEN check_main_signature(ctx, returnType, p.parameters)
                ELSE [ok |-> TRUE, errors |-> <<>>]
        f == find_existing_declaration(syms, name, p.parameters, returnType)
        failed(ran, errors, params) ==
            [ok |-> FALSE, ran |-> ran, errors |-> errors, parameters |-> params,
             existing |-> 0]
    IN  IF ~f.ok THEN failed(<<"existing">>, f.errors, parameters)
        ELSE IF ~m.ok THEN failed(<<"existing", "modifiers">>, m.errors, parameters)
        ELSE IF ~r.ok
            THEN failed(<<"existing", "modifiers", "return">>, m.errors \o r.errors, parameters)
        ELSE IF ~p.ok
            THEN failed(<<"existing", "modifiers", "return", "parameters">>,
                        m.errors \o r.errors \o p.errors, p.parameters)
        ELSE IF ~s.ok
            THEN failed(<<"existing", "modifiers", "return", "parameters", "main">>,
                        m.errors \o r.errors \o p.errors \o s.errors, p.parameters)
        ELSE [ok |-> TRUE,
              ran |-> <<"modifiers", "return", "parameters", "main", "existing">>,
              errors |-> m.errors \o r.errors \o p.errors,
              parameters |-> p.parameters, existing |-> f.existing]

\* the checks of Convert, in order, each run only when the ones before it
\* passed: what was run, what was reported, the parameters as the checks
\* left them, and the existing declaration found (0: none)
convert_checks(ctx, syms, name, modifiers, parameters, returnType) ==
    LET isMain == name = "main"
        m == check_modifiers(ctx, modifiers)
        r == check_return_type(ctx, returnType)
        p == check_parameters(ctx, parameters, isMain)
        s == IF isMain
                THEN check_main_signature(ctx, returnType, p.parameters)
                ELSE [ok |-> TRUE, errors |-> <<>>]
        f == find_existing_declaration(syms, name, p.parameters, returnType)
    IN  IF ~m.ok
            THEN [ok |-> FALSE, ran |-> <<"modifiers">>, errors |-> m.errors,
                  parameters |-> parameters, existing |-> 0]
        ELSE IF ~r.ok
            THEN [ok |-> FALSE, ran |-> <<"modifiers", "return">>,
                  errors |-> m.errors \o r.errors,
                  parameters |-> parameters, existing |-> 0]
        ELSE IF ~p.ok
            THEN [ok |-> FALSE, ran |-> <<"modifiers", "return", "parameters">>,
                  errors |-> m.errors \o r.errors \o p.errors,
                  parameters |-> p.parameters, existing |-> 0]
        ELSE IF ~s.ok
            THEN [ok |-> FALSE, ran |-> <<"modifiers", "return", "parameters", "main">>,
                  errors |-> m.errors \o r.errors \o p.errors \o s.errors,
                  parameters |-> p.parameters, existing |-> 0]
        ELSE [ok |-> f.ok,
              ran |-> IF isMain
                        THEN <<"modifiers", "return", "parameters", "main", "existing">>
                        ELSE <<"modifiers", "return", "parameters", "existing">>,
              errors |-> m.errors \o r.errors \o p.errors \o s.errors \o f.errors,
              parameters |-> p.parameters, existing |-> f.existing]

\* the FunctionDeclaration constructor dropping the builtin flag
FunctionDeclaration_notBuiltin(modifiers, name, parameters, returnType, builtin) ==
    [name |-> name,
     modifiers |-> modifiers,
     parameters |-> parameters,
     returnType |-> returnType,
     builtin |-> FALSE,
     definition |-> FALSE]

\* the FunctionDeclaration constructor
FunctionDeclaration(modifiers, name, parameters, returnType, builtin) ==
    [name |-> name,
     modifiers |-> modifiers,
     parameters |-> parameters,
     returnType |-> returnType,
     builtin |-> builtin,
     definition |-> FALSE]

\* SymbolTable::add of a function declaration: it joins the overload chain of its name
add(syms, decl) ==
    [syms EXCEPT ![decl.name] = [kind |-> "function", chain |-> Append(@.chain, decl)]]

\* the parameter Variables that are alive: the symbol table owns them
FreeIds == heap \ owned

RECURSIVE fresh_variables(_, _)
\* the candidate's parameters as fresh Variables: each gets an id that is
\* free, lowest first
fresh_variables(shapes, free) ==
    IF shapes = <<>>
        THEN <<>>
        ELSE LET id == CHOOSE i \in free : \A j \in free : i <= j
             IN  <<[id |-> id,
                    type |-> shapes[1].type,
                    flags |-> shapes[1].flags,
                    builtin |-> shapes[1].builtin]>>
                   \o fresh_variables(Tail(shapes), free \ {id})

\* the ids of a parameter list
ids_of(parameters) == {parameters[i].id : i \in 1..Len(parameters)}

\* handed_over taking ownership ahead of the checks
handed_over_early(c, parameters) == ids_of(parameters)

\* the candidate's parameters Convert hands to the symbol table
\* (takeOwnershipOfSymbol): all of them, once every check has passed
handed_over(c, parameters) == IF c.ok THEN ids_of(parameters) ELSE {}

\* FunctionDeclaration::Convert on the candidate (name, modifiers, shapes, returnType)
Convert(name, modifiers, shapes, returnType) ==
    /\ Len(shapes) <= Cardinality(FreeIds)
    /\ \E parameters \in {fresh_variables(shapes, FreeIds)} :
        \E c \in {convert_checks(config, symbols, name, modifiers, parameters, returnType)} :
          LET existing == c.ok /\ c.existing # 0
              created == c.ok /\ c.existing = 0
              result == FunctionDeclaration(modifiers, name, c.parameters, returnType,
                                            config.fIsBuiltinCode)
          IN  /\ owned' = owned \cup handed_over(c, parameters)
              /\ symbols' = IF created THEN add(symbols, result) ELSE symbols
              /\ last' = [op |-> "Convert",
                          name |-> name,
                          modifiers |-> modifiers,
                          parameters |-> parameters,
                          returnType |-> returnType,
                          ok |-> c.ok,
                          ran |-> c.ran,
                          errors |-> c.errors,
                          checked |-> c.parameters,
                          result |-> IF existing THEN c.existing
                                     ELSE IF created THEN Len(symbols[name].chain) + 1
                                     ELSE 0,
                          created |-> created,
                          discarded |-> ids_of(parameters) \ handed_over(c, parameters),
                          out |-> <<>>,
                          symbols |-> symbols,
                          owned |-> owned]
    /\ UNCHANGED <<config, heap>>

\* the record of an operation other than Convert
other_op(op, name) ==
    [op |-> op, name |-> name, modifiers |-> {}, parameters |-> <<>>, returnType |-> "void",
     ok |-> TRUE, ran |-> <<>>, errors |-> <<>>, checked |-> <<>>, result |-> 0,
     created |-> FALSE, discarded |-> {}, out |-> <<>>, symbols |-> symbols, owned |-> owned]

\* a body is bound to the k-th declaration of name (FunctionDeclaration::setDefinition)
setDefinition(name, k) ==
    /\ k \in 1..Len(symbols[name].chain)
    /\ ~symbols[name].chain[k].definition
    /\ symbols' = [symbols EXCEPT ![name].chain[k].definition = TRUE]
    /\ last' = other_op("setDefinition", name)
    /\ UNCHANGED <<config, owned, heap>>

\* a variable is declared under a name nothing is declared under (SymbolTable::add)
addVariable(name) ==
    /\ symbols[name].kind = "none"
    /\ symbols' = [symbols EXCEPT ![name] = OtherSymbol]
    /\ last' = other_op("addVariable", name)
    /\ UNCHANGED <<config, owned, heap>>

(***************************************************************************)
(* FunctionDeclaration::mangledName.  Strings are sequences of characters. *)
(***************************************************************************)
\* the characters of a function name (std::string_view)
characters(name) ==
    CASE name = "foo" -> <<"f", "o", "o">>
      [] name = "main" -> <<"m", "a", "i", "n">>
      [] name = "$foo" -> <<"$", "f", "o", "o">>
      [] name = "foo_" -> <<"f", "o", "o", "_">>
      [] name = "foo_x" -> <<"f", "o", "o", "_", "x">>

\* Type::abbreviatedName: a letter for the component type, then the number of
\* components of a vector
abbreviatedName(t) ==
    LET letter(c) == CASE c = "float" -> "f"
                       [] c = "half" -> "h"
                       [] c = "int" -> "i"
                       [] c = "void" -> "v"
    IN  CASE t \in ScalarTypes \cup {"void"} -> <<letter(t)>>
          [] t = "float2" -> <<"f", "2">>
          [] t = "float3" -> <<"f", "3">>
          [] t = "float4" -> <<"f", "4">>
          [] t = "half2" -> <<"h", "2">>
          [] t = "half4" -> <<"h", "4">>
          [] OTHER -> <<t>>

\* skstd::starts_with
starts_with(str, c) == str # <<>> /\ str[1] = c

\* skstd::ends_with
ends_with(str, c) == str # <<>> /\ str[Len(str)] = c

\* std::string_view::remove_prefix
remove_prefix(str, n) == SubSeq(str, n + 1, Len(str))

\* FunctionDeclaration::isMain (fIsMain)
isMain(decl) == decl.name = "main"

\* keeps_real_name overlooking the body of a builtin
keeps_real_name_builtin(decl) == decl.builtin \/ isMain(decl)

\* the declarations mangledName returns the real name of: builtins without a
\* definition, and the entry point
keeps_real_name(decl) == (decl.builtin /\ ~decl.definition) \/ isMain(decl)

\* builtinMarker never set
builtinMarker_none(name) == <<>>

\* builtinMarker: "Q" when the name has the $ prefix that is removed
builtinMarker(name) == IF starts_with(name, "$") THEN <<"Q">> ELSE <<>>

\* the name once the $ prefix is removed
unprefixed(name) == IF starts_with(name, "$") THEN remove_prefix(name, 1) ELSE name

\* splitter that is "_" after every name
splitter_plain(name) == <<"_">>

\* splitter: no two underscores in a row
splitter(name) == IF ends_with(name, "_") THEN <<"x", "_">> ELSE <<"_">>

RECURSIVE parameter_abbreviations_reversed(_)
\* parameter_abbreviations, last parameter first
parameter_abbreviations_reversed(parameters) ==
    IF parameters = <<>>
        THEN <<>>
        ELSE parameter_abbreviations_reversed(Tail(parameters))
                \o abbreviatedName(parameters[1].type)

RECURSIVE parameter_abbreviations(_)
\* the abbreviated names of the parameters' types, in order
parameter_abbreviations(parameters) ==
    IF parameters = <<>>
        THEN <<>>
        ELSE abbreviatedName(parameters[1].type)
                \o parameter_abbreviations(Tail(parameters))

\* FunctionDeclaration::mangledName
mangledName(decl) ==
    IF keeps_real_name(decl)
        THEN characters(decl.name)
        ELSE LET name == unprefixed(characters(decl.name))
             IN  name \o splitter(name) \o builtinMarker(characters(decl.name))
                      \o abbreviatedName(decl.returnType)
                      \o parameter_abbreviations(decl.parameters)

\* mangledName is called on the k-th declaration of name
Mangle(name, k) ==
    /\ k \in DOMAIN symbols[name].chain
    /\ last' = [other_op("mangledName", name) EXCEPT
                    !.result = k,
                    !.out = mangledName(symbols[name].chain[k])]
    /\ UNCHANGED <<config, symbols, owned, heap>>

(***************************************************************************)
(* FunctionDeclaration::determineFinalTypes.                               *)
(***************************************************************************)
\* the return type when determineFinalTypes does not set it
NoType == "none"

RECURSIVE determineFinalTypes_loop_strict(_, _, _, _, _)
\* determineFinalTypes_loop resolving every generic parameter and giving up
\* when two of them resolve to different indices
determineFinalTypes_loop_strict(parameters, arguments, i, genericIndex, outParameterTypes) ==
    IF i > Len(arguments)
        THEN [ok |-> TRUE, genericIndex |-> genericIndex,
              outParameterTypes |-> outParameterTypes]
    ELSE IF ~isGeneric(parameters[i].type)
        THEN determineFinalTypes_loop_strict(parameters, arguments, i + 1, genericIndex,
                                             Append(outParameterTypes, parameters[i].type))
    ELSE LET g == find_generic_index(arguments[i], parameters[i].type, TRUE)
         IN  IF g = NoIndex \/ (genericIndex # NoIndex /\ g # genericIndex)
                THEN [ok |-> FALSE, genericIndex |-> genericIndex,
                      outParameterTypes |-> outParameterTypes]
                ELSE determineFinalTypes_loop_strict(
                        parameters, arguments, i + 1, g,
                        Append(outParameterTypes, coercibleTypes(parameters[i].type)[g + 1]))

RECURSIVE determineFinalTypes_loop(_, _, _, _, _)
\* the loop of determineFinalTypes from the i-th argument on: the first generic
\* parameter locks the generic index in, the later ones take it over
determineFinalTypes_loop(parameters, arguments, i, genericIndex, outParameterTypes) ==
    IF i > Len(arguments)
        THEN [ok |-> TRUE, genericIndex |-> genericIndex,
              outParameterTypes |-> outParameterTypes]
    ELSE IF ~isGeneric(parameters[i].type)
        THEN determineFinalTypes_loop(parameters, arguments, i + 1, genericIndex,
                                      Append(outParameterTypes, parameters[i].type))
    ELSE LET g == IF genericIndex = NoIndex
                    THEN find_generic_index(arguments[i], parameters[i].type, TRUE)
                    ELSE genericIndex
         IN  IF g = NoIndex
                THEN [ok |-> FALSE, genericIndex |-> genericIndex,
                      outParameterTypes |-> outParameterTypes]
                ELSE determineFinalTypes_loop(
                        parameters, arguments, i + 1, g,
                        Append(outParameterTypes, coercibleTypes(parameters[i].type)[g + 1]))

\* determineFinalTypes letting a generic return type through when no
\* parameter fixed an index
determineFinalTypes_unchecked(decl, arguments) ==
    LET r == determineFinalTypes_loop(decl.parameters, arguments, 1, NoIndex, <<>>)
    IN  [ok |-> r.ok,
         outParameterTypes |-> r.outParameterTypes,
         outReturnType |->
            IF ~r.ok THEN NoType
            ELSE IF isGeneric(decl.returnType) /\ r.genericIndex # NoIndex
                THEN coercibleTypes(decl.returnType)[r.genericIndex + 1]
            ELSE decl.returnType]

\* FunctionDeclaration::determineFinalTypes on the types of the arguments of a call
determineFinalTypes(decl, arguments) ==
    LET r == determineFinalTypes_loop(decl.parameters, arguments, 1, NoIndex, <<>>)
    IN  IF ~r.ok
            THEN [ok |-> FALSE, outParameterTypes |-> r.outParameterTypes,
                  outReturnType |-> NoType]
        ELSE IF ~isGeneric(decl.returnType)
            THEN [ok |-> TRUE, outParameterTypes |-> r.outParameterTypes,
                  outReturnType |-> decl.returnType]
        ELSE IF r.genericIndex = NoIndex
            THEN [ok |-> FALSE, outParameterTypes |-> r.outParameterTypes,
                  outReturnType |-> NoType]
        ELSE [ok |-> TRUE, outParameterTypes |-> r.outParameterTypes,
              outReturnType |-> coercibleTypes(decl.returnType)[r.genericIndex + 1]]

\* a call with arguments of the given types is resolved against the k-th
\* declaration of name, which has as many parameters
Call(name, k, arguments) ==
    /\ k \in DOMAIN symbols[name].chain
    /\ Len(arguments) = Len(symbols[name].chain[k].parameters)
    /\ last' = [other_op("determineFinalTypes", name) EXCEPT
                    !.result = k,
                    !.out = [arguments |-> arguments,
                             final |-> determineFinalTypes(symbols[name].chain[k],
                                                           arguments)]]
    /\ UNCHANGED <<config, symbols, owned, heap>>

\* find_generic_index is applied to a concrete type and a generic type
Resolve(concreteType, genericType, allowNarrowing) ==
    /\ isGeneric(genericType)
    /\ last' = [other_op("find_generic_index", "") EXCEPT
                    !.out = [concreteType |-> concreteType,
                             genericType |-> genericType,
                             allowNarrowing |-> allowNarrowing,
                             index |-> find_generic_index(concreteType, genericType,
                                                          allowNarrowing)]]
    /\ UNCHANGED <<config, symbols, owned, heap>>

\* the builtin modules are loaded; the program's own code follows
finishModule ==
    /\ config.fIsBuiltinCode
    /\ config' = [config EXCEPT !.fIsBuiltinCode = FALSE]
    /\ last' = other_op("finishModule", "")
    /\ UNCHANGED <<symbols, owned, heap>>

(***************************************************************************)
(* Specifications.                                                         *)
(***************************************************************************)
\* the parameter lists of at most MaxParams parameters drawn from shapes
ParamLists(shapes) == UNION {[1..n -> shapes] : n \in 0..MaxParams}

\* a parameter as the parser hands it over
Shape(type, flags) == [type |-> type, flags |-> flags, builtin |-> NoBuiltin]

\* the state after construction: an empty symbol table under one of the configurations
InitWith(configs, size) ==
    /\ config \in configs
    /\ symbols = [n \in Names |-> NoSymbol]
    /\ owned = {}
    /\ heap = 1..size
    /\ last = other_op("none", "")

\* a ProgramConfig
Config(kind, builtin) ==
    [fKind |-> kind, fIsBuiltinCode |-> builtin, strictES2Mode |-> FALSE]

\* Redeclaration of an ordinary function: prototypes, definitions, builtins,
\* and a variable of the same name.
RedeclShapes == {Shape("float", {}), Shape("float", {"out"})}
RedeclReturnTypes == {"float", "int", "$genType"}

Init == InitWith({Config("Generic", TRUE)}, MaxIds)

Next ==
    \/ \E shapes \in ParamLists(RedeclShapes), returnType \in RedeclReturnTypes :
            Convert("foo", {}, shapes, returnType)
    \/ \E k \in DOMAIN symbols["foo"].chain : setDefinition("foo", k)
    \/ addVariable("foo")
    \/ finishModule

Spec == Init /\ [][Next]_vars

\* Redeclaration of functions of two parameters, in the program's own code.
PairsShapes == {Shape("float", {}), Shape("float", {"out"})}

InitPairs == InitWith({Config("Generic", FALSE)}, MaxPairIds)

NextPairs ==
    \/ \E shapes \in ParamLists(PairsShapes) : Convert("foo", {}, shapes, "float")
    \/ \E k \in DOMAIN symbols["foo"].chain : setDefinition("foo", k)

SpecPairs == InitPairs /\ [][NextPairs]_vars

\* Overloads that differ in their parameter types, concrete and generic.
TypesShapes == {Shape("float2", {}), Shape("float3", {}), Shape("$genType", {})}
TypesReturnTypes == {"float", "int"}

InitTypes == InitWith({Config("Generic", TRUE)}, MaxIds)

NextTypes ==
    \/ \E shapes \in ParamLists(TypesShapes), returnType \in TypesReturnTypes :
            Convert("foo", {}, shapes, returnType)
    \/ finishModule

SpecTypes == InitTypes /\ [][NextTypes]_vars

\* Candidates that fail each of the checks of Convert, in the program's own code.
ErrorsModifiers == {{}, {"inline", "noinline"}}
ErrorsShapes == {Shape("float", {}), Shape("float", {"out"}), Shape("shader", {})}
ErrorsReturnTypes == {"float", "int", "float[2]"}

InitErrors == InitWith({Config("Generic", FALSE)}, MaxIds)

NextErrors ==
    \/ \E modifiers \in ErrorsModifiers, shapes \in ParamLists(ErrorsShapes),
          returnType \in ErrorsReturnTypes :
            Convert("foo", modifiers, shapes, returnType)
    \/ \E k \in DOMAIN symbols["foo"].chain : setDefinition("foo", k)
    \/ addVariable("foo")

SpecErrors == InitErrors /\ [][NextErrors]_vars

\* Candidates with modifier flags inside and outside the permitted sets.
FlagsModifiers == {{}, {"inline", "noinline"}, {"uniform"}, {"es3"}}
FlagsShapes == {Shape("float", {}), Shape("sampler2D", {"out"})}
FlagsReturnTypes == {"float", "float[2]"}

InitFlags == InitWith({Config("Generic", TRUE)}, MaxIds)

NextFlags ==
    \/ \E modifiers \in FlagsModifiers, shapes \in ParamLists(FlagsShapes),
          returnType \in FlagsReturnTypes :
            Convert("foo", modifiers, shapes, returnType)
    \/ addVariable("foo")
    \/ finishModule

SpecFlags == InitFlags /\ [][NextFlags]_vars

\* The entry point of the runtime effects.
MainKinds == {"RuntimeColorFilter", "RuntimeShader", "PrivateRuntimeShader", "RuntimeBlender"}
MainShapes ==
    {Shape("float2", {}), Shape("half4", {}), Shape("float4", {"in"}), Shape("half4", {"out"})}
MainReturnTypes == {"half4", "float4", "float2"}

InitMain == InitWith({Config(kind, FALSE) : kind \in MainKinds}, MaxIds)

NextMain ==
    \E shapes \in ParamLists(MainShapes), returnType \in MainReturnTypes :
        Convert("main", {}, shapes, returnType)

SpecMain == InitMain /\ [][NextMain]_vars

\* The entry point of the mesh programs.
MeshKinds == {"MeshVertex", "MeshFragment"}
MeshShapes ==
    {Shape("Attributes", {"in"}), Shape("Varyings", {}), Shape("Varyings", {"out"}),
     Shape("half4", {"out"}), Shape("float2", {})}
MeshReturnTypes == {"float2", "void", "half4"}

InitMesh == InitWith({Config(kind, FALSE) : kind \in MeshKinds}, MaxIds)

NextMesh ==
    \E shapes \in ParamLists(MeshShapes), returnType \in MeshReturnTypes :
        Convert("main", {}, shapes, returnType)

SpecMesh == InitMesh /\ [][NextMesh]_vars

\* The entry point of the shader stages and of the Generic kind.
StageKinds ==
    {"Vertex", "GraphiteVertex", "Compute", "Fragment", "GraphiteFragment", "Generic"}
StageShapes ==
    {Shape("float2", {}), Shape("float2", {"in"}), Shape("float2", {"out"}), Shape("half4", {})}
StageReturnTypes == {"void", "half4"}

InitStage == InitWith({Config(kind, FALSE) : kind \in StageKinds}, MaxIds)

NextStage ==
    \E shapes \in ParamLists(StageShapes), returnType \in StageReturnTypes :
        Convert("main", {}, shapes, returnType)

SpecStage == InitStage /\ [][NextStage]_vars

\* the parameter lists of one to MaxParams parameters drawn from shapes
FullParamLists(shapes) == ParamLists(shapes) \ {<<>>}

\* Mangled names of builtins and of the program's own functions, before and
\* after a body is bound to them.
MangleNames == {"$foo", "foo", "main"}
MangleShapes == {Shape("float", {}), Shape("half2", {})}

InitMangle == InitWith({Config("Generic", TRUE)}, MaxIds)

NextMangle ==
    \/ \E name \in MangleNames, shapes \in FullParamLists(MangleShapes) :
            Convert(name, {}, shapes, "float")
    \/ \E name \in MangleNames : \E k \in DOMAIN symbols[name].chain : setDefinition(name, k)
    \/ \E name \in MangleNames : \E k \in DOMAIN symbols[name].chain : Mangle(name, k)
    \/ finishModule

SpecMangle == InitMangle /\ [][NextMangle]_vars

\* Mangled names of functions whose names and signatures are close to one another.
CollideNames == {"foo", "$foo", "foo_", "foo_x"}
CollideShapes == {Shape("float", {}), Shape("float2", {})}
CollideReturnTypes == {"float", "half"}

InitCollide == InitWith({Config("Generic", FALSE)}, MaxIds)

NextCollide ==
    \/ \E name \in CollideNames, shapes \in FullParamLists(CollideShapes),
          returnType \in CollideReturnTypes :
            Convert(name, {}, shapes, returnType)
    \/ \E name \in CollideNames : \E k \in DOMAIN symbols[name].chain : Mangle(name, k)

SpecCollide == InitCollide /\ [][NextCollide]_vars

\* Calls of builtins with generic parameters.
CallsShapes == {Shape("$genVType", {}), Shape("$genType", {}), Shape("float", {})}
CallsReturnTypes == {"float", "$genVType"}
\* the types of the arguments of a call
ArgumentTypes == {"float2", "float3", "half2", "int"}

InitCalls == InitWith({Config("Generic", TRUE)}, MaxIds)

NextCalls ==
    \/ \E shapes \in ParamLists(CallsShapes), returnType \in CallsReturnTypes :
            Convert("foo", {}, shapes, returnType)
    \/ \E k \in DOMAIN symbols["foo"].chain :
         \E arguments \in [1..Len(symbols["foo"].chain[k].parameters) -> ArgumentTypes] :
            Call("foo", k, arguments)

SpecCalls == InitCalls /\ [][NextCalls]_vars

\* The generic index of every type against every generic family.
ConcreteTypes ==
    ScalarTypes \cup VectorTypes \cup StructTypes \cup ArrayTypes \cup OpaqueTypes

InitResolve == InitWith({Config("Generic", TRUE)}, MaxIds)

NextResolve ==
    \E concreteType \in ConcreteTypes, genericType \in GenericTypes,
       allowNarrowing \in BOOLEAN :
        Resolve(concreteType, genericType, allowNarrowing)

SpecResolve == InitResolve /\ [][NextResolve]_vars

\* Candidates compared with declarations of several generic parameters.
GenericsShapes ==
    {Shape("$genType", {}), Shape("$genHType", {}), Shape("float2", {}), Shape("float3", {})}

InitGenerics == InitWith({Config("Generic", TRUE)}, MaxPairIds)

NextGenerics ==
    \E shapes \in ParamLists(GenericsShapes) : Convert("foo", {}, shapes, "float")

SpecGenerics == InitGenerics /\ [][NextGenerics]_vars

\* Role inference on lists of up to three parameters, for 'main' and for another function.
RoleNames == {"main", "foo"}
RoleShapes == {Shape("float2", {}), Shape("half4", {}), Shape("float4", {"in"})}

InitRoles == InitWith({Config(kind, FALSE) : kind \in MainKinds}, MaxRoleParams)

NextRoles ==
    \E name \in RoleNames,
       shapes \in UNION {[1..n -> RoleShapes] : n \in 0..MaxRoleParams} :
        Convert(name, {}, shapes, "half4")

SpecRoles == InitRoles /\ [][NextRoles]_vars

\* Parameters written with and without 'in', 'out' and 'const'.
InShapes ==
    {Shape("float", {}), Shape("float", {"in"}), Shape("float", {"out"}),
     Shape("float", {"in", "out"}), Shape("float", {"const", "in"})}

InitIn == InitWith({Config("Generic", FALSE)}, MaxIds)

NextIn ==
    \/ \E shapes \in ParamLists(InShapes) : Convert("foo", {}, shapes, "float")
    \/ \E k \in DOMAIN symbols["foo"].chain : setDefinition("foo", k)

SpecIn == InitIn /\ [][NextIn]_vars

\* Return types that are arrays, structs holding arrays and opaque types, with
\* and without the strict ES2 mode, in builtin code and in the program's own.
ReturnShapes == {Shape("float", {}), Shape("float2", {})}
ReturnReturnTypes == {"float", "float[2]", "S", "sampler2D"}

InitReturn ==
    InitWith({[Config("Generic", TRUE) EXCEPT !.strictES2Mode = strict] : strict \in BOOLEAN},
             MaxIds)

NextReturn ==
    \/ \E shapes \in ParamLists(ReturnShapes), returnType \in ReturnReturnTypes :
            Convert("foo", {}, shapes, returnType)
    \/ finishModule

SpecReturn == InitReturn /\ [][NextReturn]_vars

\* Candidates for 'main' that fail several checks of Convert at once.
OrderModifiers == {{}, {"inline", "noinline"}}
OrderShapes == {Shape("float2", {"in"}), Shape("half4", {}), Shape("shader", {})}
OrderReturnTypes == {"half4", "float[2]"}

InitOrder == InitWith({Config("RuntimeShader", FALSE)}, MaxIds)

NextOrder ==
    \/ \E modifiers \in OrderModifiers, shapes \in ParamLists(OrderShapes),
          returnType \in OrderReturnTypes :
            Convert("main", modifiers, shapes, returnType)
    \/ addVariable("main")

SpecOrder == InitOrder /\ [][NextOrder]_vars

\* Candidates whose types coerce to a member of a generic family, or are one.
FamilyShapes ==
    {Shape("$genFHType", {}), Shape("$genType", {}), Shape("half2", {}), Shape("float2", {})}

InitFamily == InitWith({Config("Generic", TRUE)}, MaxPairIds)

NextFamily ==
    \E shapes \in ParamLists(FamilyShapes) : Convert("foo", {}, shapes, "float")

SpecFamily == InitFamily /\ [][NextFamily]_vars

\* Candidates declared after a builtin whose parameter and return type are generic.
ReturnFamilyShapes == {Shape("$genType", {}), Shape("float2", {})}
ReturnFamilyReturnTypes == {"$genType", "float3", "half", "int"}

InitReturnFamily == InitWith({Config("Generic", TRUE)}, MaxIds)

NextReturnFamily ==
    \/ \E shapes \in ParamLists(ReturnFamilyShapes), returnType \in ReturnFamilyReturnTypes :
            Convert("foo", {}, shapes, returnType)
    \/ finishModule

SpecReturnFamily == InitReturnFamily /\ [][NextReturnFamily]_vars

\* Candidates that match several declarations of the overload chain at once.
SiblingsShapes == {Shape("float2", {}), Shape("float2", {"out"}), Shape("$genType", {})}
SiblingsReturnTypes == {"float", "int"}

InitSiblings == InitWith({Config("Generic", TRUE)}, MaxRoleParams)

NextSiblings ==
    \/ \E shapes \in ParamLists(SiblingsShapes), returnType \in SiblingsReturnTypes :
            Convert("foo", {}, shapes, returnType)
    \/ finishModule

SpecSiblings == InitSiblings /\ [][NextSiblings]_vars

\* Calls whose arguments need a narrowing conversion, or fit no member at all.
FinalShapes == {Shape("$genHType", {}), Shape("$genFHType", {}), Shape("half", {})}
FinalReturnTypes == {"float", "$genHType"}
FinalArgumentTypes == {"float2", "half2", "half", "int"}

InitFinal == InitWith({Config("Generic", TRUE)}, MaxIds)

NextFinal ==
    \/ \E shapes \in ParamLists(FinalShapes), returnType \in FinalReturnTypes :
            Convert("foo", {}, shapes, returnType)
    \/ \E k \in DOMAIN symbols["foo"].chain :
         \E arguments \in [1..Len(symbols["foo"].chain[k].parameters) -> FinalArgumentTypes] :
            Call("foo", k, arguments)

SpecFinal == InitFinal /\ [][NextFinal]_vars

(***************************************************************************)
(* Properties.                                                             *)
(***************************************************************************)
\* the overload chain of a name
Chain(name) == symbols[name].chain

\* the overload chain the last operation started from
ChainBefore == last.symbols[last.name].chain

\* the last operation was a Convert that got as far as the lookup of an
\* existing declaration: its signature and entry-point checks passed
Validated == last.op = "Convert" /\ last.ran # <<>> /\ last.ran[Len(last.ran)] = "existing"

\* the types of a parameter list
TypesOf(parameters) == [i \in 1..Len(parameters) |-> parameters[i].type]

\* a type with its generic family resolved to the member at index g (from 1)
ResolvedAt(t, g) == IF isGeneric(t) THEN coercibleTypes(t)[g] ELSE t

\* the concrete signatures a declaration stands for: its own when it has no
\* generic type, else one per index of its generic families
Instances(decl) ==
    LET types == {decl.returnType} \cup {decl.parameters[i].type : i \in 1..Len(decl.parameters)}
        families == {t \in types : isGeneric(t)}
        indices == IF families = {}
                      THEN {1}
                      ELSE {g \in UNION {DOMAIN coercibleTypes(t) : t \in families} :
                                \A t \in families : g \in DOMAIN coercibleTypes(t)}
    IN  {<<[i \in 1..Len(decl.parameters) |-> ResolvedAt(decl.parameters[i].type, g)],
           ResolvedAt(decl.returnType, g)>> : g \in indices}

\* C1 as claimed: no two recorded declarations of one name have equal
\* parameter-type lists, generic parameters resolved to family members, and
\* equal return types.
C1_NoEqualInstances ==
    \A n \in Names : \A i, j \in DOMAIN Chain(n) :
        i < j => Instances(Chain(n)[i]) \cap Instances(Chain(n)[j]) = {}

\* C1 as amended: no recorded declaration has a parameter list that matches
\* the one of a declaration recorded before it under the same name (the generic
\* parameters of the earlier one resolved against the later one's types) together
\* with a return type that generically matches the earlier one's.
C1_NoMatchingPair ==
    \A n \in Names : \A i, j \in DOMAIN Chain(n) :
        i < j => ~(/\ parameters_match(Chain(n)[j].parameters, Chain(n)[i].parameters)
                   /\ type_generically_matches(Chain(n)[j].returnType,
                                               Chain(n)[i].returnType))

\* two overloads of the same arity stand recorded, the later one just created
C1_Witness ==
    /\ last.op = "Convert"
    /\ last.created
    /\ \E i \in DOMAIN Chain("foo") :
          /\ i < last.result
          /\ Len(Chain("foo")[i].parameters) = Len(last.parameters)
          /\ Len(last.parameters) > 0

\* C2: a Convert that fails leaves the symbol table as it was: no declaration
\* is added and no parameter of the candidate is handed to the symbol table.
C2_FailureChangesNothing ==
    (last.op = "Convert" /\ ~last.ok) =>
        /\ symbols = last.symbols
        /\ owned = last.owned
        /\ last.result = 0
        /\ ~last.created

\* a candidate with parameters failed against a table with a declaration in it
C2_Witness ==
    /\ last.op = "Convert"
    /\ ~last.ok
    /\ last.parameters # <<>>
    /\ Chain("foo") # <<>>
    /\ last.errors = <<"differ only in return type">>

Found == first_match(ChainBefore, last.checked)

\* the return comparison of the lookup, spelled out: a member of the family
\* the candidate's return type coerces to without narrowing, or the same type
ReturnMatches(concrete, maybeGeneric) ==
    IF isGeneric(maybeGeneric)
        THEN \E i \in DOMAIN coercibleTypes(maybeGeneric) :
                canCoerceTo(concrete, coercibleTypes(maybeGeneric)[i], FALSE)
        ELSE concrete = maybeGeneric

\* the modifiers of the candidate's parameters equal those of the declaration's, position by position
SameModifiers(parameters, decl) ==
    \A i \in DOMAIN parameters :
        /\ parameters[i].flags = decl.parameters[i].flags
        /\ parameters[i].builtin = decl.parameters[i].builtin

\* C4: a validated candidate that matches the existing declaration found under
\* its name in parameters, return type and parameter modifiers fails with
\* 'duplicate definition' when that declaration has a body or is a builtin, and
\* otherwise gets that very declaration back, no declaration being created.
C4_Redeclaration ==
    (/\ Validated
     /\ Found # 0
     /\ ReturnMatches(last.returnType, ChainBefore[Found].returnType)
     /\ SameModifiers(last.checked, ChainBefore[Found])) =>
        /\ symbols = last.symbols
        /\ ~last.created
        /\ IF ChainBefore[Found].definition \/ ChainBefore[Found].builtin
              THEN ~last.ok /\ last.result = 0 /\ last.errors = <<"duplicate definition">>
              ELSE last.ok /\ last.result = Found /\ last.errors = <<>>

\* a prototype with a parameter was declared again and Convert returned it
C4_Witness ==
    /\ Validated
    /\ last.ok
    /\ ~last.created
    /\ last.result # 0
    /\ last.parameters # <<>>
    /\ ~Chain("foo")[last.result].builtin
    /\ ~Chain("foo")[last.result].definition

\* C5: a validated candidate whose parameters match an existing declaration and
\* whose return type does not match that declaration's fails with 'differ only
\* in return type' and records nothing.
C5_ReturnTypeDiffers ==
    (/\ Validated
     /\ Found # 0
     /\ ~ReturnMatches(last.returnType, ChainBefore[Found].returnType)) =>
        /\ ~last.ok
        /\ last.errors = <<"differ only in return type">>
        /\ symbols = last.symbols
        /\ owned = last.owned

\* 'int foo(float)' was declared after 'float foo(float)'
C5_Witness ==
    /\ Validated
    /\ Found # 0
    /\ last.returnType = "int"
    /\ TypesOf(last.parameters) = <<"float">>
    /\ ChainBefore[Found].returnType = "float"
    /\ TypesOf(ChainBefore[Found].parameters) = <<"float">>
    /\ ~last.ok

\* C6: a validated candidate that matches an existing declaration in parameter
\* types and return type and differs from it in the modifiers of a parameter
\* fails with 'modifiers differ between declaration and definition', whether or
\* not the existing declaration has a body.
C6_ModifiersDiffer ==
    (/\ Validated
     /\ Found # 0
     /\ ReturnMatches(last.returnType, ChainBefore[Found].returnType)
     /\ ~SameModifiers(last.checked, ChainBefore[Found])) =>
        /\ ~last.ok
        /\ last.errors = <<"modifiers differ between declaration and definition">>
        /\ symbols = last.symbols

\* a candidate of two parameters differed from a declaration without a body in
\* the modifiers of its second parameter alone
C6_Witness ==
    /\ Validated
    /\ Found # 0
    /\ Len(last.checked) = 2
    /\ ReturnMatches(last.returnType, ChainBefore[Found].returnType)
    /\ last.checked[1].flags = ChainBefore[Found].parameters[1].flags
    /\ last.checked[2].flags # ChainBefore[Found].parameters[2].flags
    /\ ~ChainBefore[Found].definition
    /\ ~ChainBefore[Found].builtin
    /\ ~last.ok

\* C7: when the candidate's name is bound to a symbol that is no function
\* declaration, every candidate that passed the signature checks fails with
\* 'symbol already defined' and the symbol stays as it was.
C7_NameTaken ==
    (Validated /\ last.symbols[last.name].kind = "variable") =>
        /\ ~last.ok
        /\ last.errors = <<"symbol was already defined">>
        /\ symbols = last.symbols
        /\ symbols[last.name] = OtherSymbol
        /\ owned = last.owned

\* a function was declared under the name of a variable
C7_Witness ==
    /\ Validated
    /\ last.symbols[last.name].kind = "variable"
    /\ last.parameters # <<>>
    /\ ~last.ok

\* C8: a validated candidate that matches no declaration of its name becomes
\* one new declaration with the candidate's parameters in their order, its
\* return type and the configuration's builtin flag, appended to the overloads
\* there were, which stay as they are.
C8_NewOverload ==
    (/\ Validated
     /\ last.symbols[last.name].kind # "variable"
     /\ \A k \in DOMAIN ChainBefore :
            ~parameters_match(last.checked, ChainBefore[k].parameters)) =>
        /\ last.ok
        /\ last.created
        /\ last.result = Len(ChainBefore) + 1
        /\ Len(Chain(last.name)) = Len(ChainBefore) + 1
        /\ SubSeq(Chain(last.name), 1, Len(ChainBefore)) = ChainBefore
        /\ \A n \in Names \ {last.name} : symbols[n] = last.symbols[n]
        /\ LET decl == Chain(last.name)[last.result]
           IN  /\ decl.name = last.name
               /\ decl.returnType = last.returnType
               /\ decl.builtin = config.fIsBuiltinCode
               /\ ~decl.definition
               /\ Len(decl.parameters) = Len(last.parameters)
               /\ \A i \in DOMAIN last.parameters :
                      /\ decl.parameters[i].id = last.parameters[i].id
                      /\ decl.parameters[i].type = last.parameters[i].type

\* 'float foo(float2)' was declared after 'float foo(float3)': two overloads
C8_Witness ==
    /\ Validated
    /\ last.created
    /\ Len(Chain("foo")) = 2
    /\ TypesOf(Chain("foo")[1].parameters) = <<"float3">>
    /\ TypesOf(Chain("foo")[2].parameters) = <<"float2">>
    /\ Chain("foo")[1].returnType = "float"
    /\ Chain("foo")[2].returnType = "float"

\* the places of the declarations' parameter lists that hold the Variable id
PlacesOf(id) ==
    UNION {UNION {{<<n, k, i>> : i \in {j \in DOMAIN Chain(n)[k].parameters :
                                          Chain(n)[k].parameters[j].id = id}} :
                  k \in DOMAIN Chain(n)} :
           n \in Names}

\* C9: every parameter of a candidate ends either in the parameter list of the
\* declaration Convert created or on the discard path of a failed call; no
\* parameter is referenced by two declarations, and the symbol table owns no
\* parameter that is not a parameter of a declaration.
C9_Ownership ==
    /\ \A id \in owned : Cardinality(PlacesOf(id)) = 1
    /\ \A id \in heap \ owned : PlacesOf(id) = {}
    /\ last.op = "Convert" =>
          \A id \in ids_of(last.parameters) :
              (id \in last.discarded) # (last.created /\ PlacesOf(id) # {})

\* the flags of a parameter once a lone 'in' is dropped
NormalisedFlags(p) ==
    IF "in" \in p.flags /\ "out" \notin p.flags THEN p.flags \ {"in"} ELSE p.flags

\* a parameter of a colour type with no flag left
PlainColor(p) == p.type \in {"half4", "float4"} /\ NormalisedFlags(p) = {}

\* a float2 parameter with no flag left
PlainCoords(p) == p.type = "float2" /\ NormalisedFlags(p) = {}

\* the signatures of 'main' the runtime-effect kinds admit
MainShape(kind, returnType, parameters) ==
    /\ returnType \in {"half4", "float4"}
    /\ CASE kind = "RuntimeColorFilter" ->
                Len(parameters) = 1 /\ PlainColor(parameters[1])
         [] kind \in {"RuntimeShader", "PrivateRuntimeShader"} ->
                \/ Len(parameters) = 1 /\ PlainCoords(parameters[1])
                \/ /\ Len(parameters) = 2
                   /\ PlainCoords(parameters[1])
                   /\ PlainColor(parameters[2])
         [] kind = "RuntimeBlender" ->
                /\ Len(parameters) = 2
                /\ PlainColor(parameters[1])
                /\ PlainColor(parameters[2])
         [] OTHER -> FALSE

\* the role of the i-th parameter of an admitted 'main': a float2 is the
\* coordinates, the colours are source then destination in argument order
MainRole(parameters, i) ==
    IF parameters[i].type = "float2"
        THEN SK_MAIN_COORDS_BUILTIN
        ELSE IF \E j \in 1..(i - 1) : parameters[j].type # "float2"
                THEN SK_DEST_COLOR_BUILTIN
                ELSE SK_INPUT_COLOR_BUILTIN

\* C10: under the ColorFilter, Shader, private Shader and Blender kinds 'main'
\* passes the shape check exactly when it returns half4 or float4 and takes,
\* respectively, one source colour; the coordinates and optionally a source
\* colour; a source and a destination colour; each parameter of the right
\* type, carrying its inferred role and no flag after the normalisation of 'in'.
C10_MainShape ==
    (/\ last.op = "Convert"
     /\ last.name = "main"
     /\ config.fKind \in MainKinds
     /\ \E i \in DOMAIN last.ran : last.ran[i] = "main") =>
        /\ Validated <=> MainShape(config.fKind, last.returnType, last.parameters)
        /\ Validated =>
              \A i \in DOMAIN last.checked :
                  /\ last.checked[i].flags = {}
                  /\ last.checked[i].builtin = MainRole(last.parameters, i)
                  /\ last.checked[i].type = last.parameters[i].type

\* 'half4 main(float2)' was accepted under the Shader kind, its parameter tagged as the coordinates
C10_Witness ==
    /\ last.op = "Convert"
    /\ last.name = "main"
    /\ config.fKind = "RuntimeShader"
    /\ last.returnType = "half4"
    /\ TypesOf(last.parameters) = <<"float2">>
    /\ last.ok
    /\ last.created
    /\ Chain("main")[last.result].parameters[1].builtin = SK_MAIN_COORDS_BUILTIN

\* the last operation was a Convert of 'main' that got as far as the shape check
MainChecked ==
    /\ last.op = "Convert"
    /\ last.name = "main"
    /\ \E i \in DOMAIN last.ran : last.ran[i] = "main"

\* a struct of the given name with no flag left
PlainStruct(p, name) == p.type = name /\ name \in StructTypes /\ NormalisedFlags(p) = {}

\* the signatures of 'main' the mesh kinds admit
MeshShape(kind, returnType, parameters) ==
    CASE kind = "MeshVertex" ->
            /\ returnType = "float2"
            /\ Len(parameters) = 2
            /\ PlainStruct(parameters[1], "Attributes")
            /\ parameters[2].type = "Varyings"
            /\ NormalisedFlags(parameters[2]) = {"out"}
      [] kind = "MeshFragment" ->
            /\ returnType \in {"float2", "void"}
            /\ Len(parameters) \in {1, 2}
            /\ PlainStruct(parameters[1], "Varyings")
            /\ Len(parameters) = 2 =>
                  /\ parameters[2].type \in {"half4", "float4"}
                  /\ NormalisedFlags(parameters[2]) = {"out"}
      [] OTHER -> FALSE

\* C11: under the MeshVertex kind 'main' passes the shape check exactly when it
\* returns float2 and takes (Attributes without flags, Varyings with exactly
\* 'out'); under MeshFragment exactly when it returns float2 or void and takes
\* (Varyings without flags), optionally followed by (half4 or float4 with
\* exactly 'out'); flags are those left after the normalisation of 'in', and no
\* parameter is given a role under these two kinds.
C11_MeshShape ==
    (MainChecked /\ config.fKind \in MeshKinds) =>
        /\ Validated <=> MeshShape(config.fKind, last.returnType, last.parameters)
        /\ \A i \in DOMAIN last.checked :
              /\ last.checked[i].builtin = NoBuiltin
              /\ last.checked[i].type = last.parameters[i].type

\* 'float2 main(in Attributes, out Varyings)' was accepted under the MeshVertex kind
C11_Witness ==
    /\ MainChecked
    /\ config.fKind = "MeshVertex"
    /\ last.returnType = "float2"
    /\ TypesOf(last.parameters) = <<"Attributes", "Varyings">>
    /\ last.ok
    /\ last.created
    /\ Chain("main")[last.result].parameters[2].flags = {"out"}

\* the signatures of 'main' the shader stages and the Generic kind admit
StageShape(kind, returnType, parameters) ==
    CASE kind \in {"Vertex", "GraphiteVertex", "Compute"} ->
            returnType = "void" /\ parameters = <<>>
      [] kind \in {"Fragment", "GraphiteFragment"} ->
            \/ parameters = <<>>
            \/ Len(parameters) = 1 /\ PlainCoords(parameters[1])
      [] kind = "Generic" -> TRUE
      [] OTHER -> FALSE

\* C12: under the Vertex, graphite-Vertex and Compute kinds 'main' passes the
\* shape check exactly when it returns void and takes no parameter; under
\* Fragment and graphite-Fragment exactly when it takes no parameter or the
\* coordinates alone (a float2 with no flag left, tagged as the coordinates),
\* whatever it returns; under the Generic kind every 'main' passes.
C12_StageShape ==
    (MainChecked /\ config.fKind \in StageKinds) =>
        /\ Validated <=> StageShape(config.fKind, last.returnType, last.parameters)
        /\ (Validated /\ IsFragment(config.fKind) /\ last.checked # <<>>) =>
              /\ last.checked[1].builtin = SK_MAIN_COORDS_BUILTIN
              /\ last.checked[1].flags = {}

\* 'half4 main(in float2)' was accepted under the Fragment kind, its parameter
\* tagged as the coordinates
C12_Witness ==
    /\ MainChecked
    /\ config.fKind = "Fragment"
    /\ last.returnType = "half4"
    /\ TypesOf(last.parameters) = <<"float2">>
    /\ last.parameters[1].flags = {"in"}
    /\ last.created
    /\ Chain("main")[last.result].parameters[1].builtin = SK_MAIN_COORDS_BUILTIN

\* the signature validation of Convert (modifier, return-type, parameter and
\* entry-point checks) run on a recorded declaration, nothing being declared yet
Revalidated(decl) ==
    convert_checks(config, [n \in Names |-> NoSymbol], decl.name, decl.modifiers,
                   decl.parameters, decl.returnType)

\* C13: the signature validation run again on the parameters and return type
\* of an accepted declaration succeeds and leaves every parameter's modifiers
\* and inferred role as the first run left them.
C13_Idempotent ==
    \A n \in Names : \A k \in DOMAIN Chain(n) :
        /\ Revalidated(Chain(n)[k]).ok
        /\ Revalidated(Chain(n)[k]).parameters = Chain(n)[k].parameters

\* 'half4 main(half4, in float4)' was accepted under the Blender kind: 'in' was
\* dropped and the source and destination roles were given
C13_Witness ==
    /\ last.op = "Convert"
    /\ last.created
    /\ config.fKind = "RuntimeBlender"
    /\ TypesOf(last.parameters) = <<"half4", "float4">>
    /\ last.parameters[2].flags = {"in"}
    /\ Chain("main")[last.result].parameters[2].flags = {}
    /\ Chain("main")[last.result].parameters[1].builtin = SK_INPUT_COLOR_BUILTIN
    /\ Chain("main")[last.result].parameters[2].builtin = SK_DEST_COLOR_BUILTIN

\* the last operation was mangledName, called on the declaration Mangled
MangleCalled == last.op = "mangledName"

\* the declaration mangledName was last called on
Mangled == Chain(last.name)[last.result]

\* a name without its leading '$'
WithoutDollar(str) == IF str # <<>> /\ str[1] = "$" THEN Tail(str) ELSE str

RECURSIVE Flatten(_)
\* the concatenation of a sequence of strings
Flatten(strs) == IF strs = <<>> THEN <<>> ELSE strs[1] \o Flatten(Tail(strs))

\* the abbreviated parameter types of a declaration, in order, as one string
ParameterSuffix(decl) ==
    Flatten([i \in DOMAIN decl.parameters |-> abbreviatedName(decl.parameters[i].type)])

\* mangledName leaves the name of the declaration as it is
Unmangled(decl) == (decl.builtin /\ ~decl.definition) \/ decl.name = "main"

\* C14: mangledName returns the function name as it is for every builtin
\* declaration without a body and for 'main'; every other declaration gets
\* <name without leading '$'><separator><marker><return abbreviation><parameter
\* abbreviations in order>, the separator being "_" or "x_" and the marker
\* nothing or "Q".
C14_MangledForm ==
    MangleCalled =>
        IF Unmangled(Mangled)
            THEN last.out = characters(Mangled.name)
            ELSE \E separator \in {<<"_">>, <<"x", "_">>}, marker \in {<<>>, <<"Q">>} :
                    last.out = WithoutDollar(characters(Mangled.name))
                                 \o separator \o marker
                                 \o abbreviatedName(Mangled.returnType)
                                 \o ParameterSuffix(Mangled)

\* the builtin '$foo(float, half2)' with a body was mangled to foo_Qffh2
C14_Witness ==
    /\ MangleCalled
    /\ Mangled.name = "$foo"
    /\ Mangled.builtin
    /\ Mangled.definition
    /\ TypesOf(Mangled.parameters) = <<"float", "half2">>
    /\ last.out = <<"f", "o", "o", "_", "Q", "f", "f", "h", "2">>

\* two declarations differ in name, in return type or in a parameter type
Differ(a, b) ==
    \/ a.name # b.name
    \/ a.returnType # b.returnType
    \/ TypesOf(a.parameters) # TypesOf(b.parameters)

\* C15: mangled names are free of collisions: two declarations that differ in
\* name, in return type or in a parameter type, both subject to mangling, get
\* different mangled names, also when their names differ by a trailing
\* underscore against a trailing "_x".
C15_CollisionFree ==
    MangleCalled =>
        \A n \in Names : \A k \in DOMAIN Chain(n) :
            (/\ ~Unmangled(Mangled)
             /\ ~Unmangled(Chain(n)[k])
             /\ Differ(Mangled, Chain(n)[k])) =>
                mangledName(Chain(n)[k]) # last.out

\* the declarations recorded now and before the last operation
Recorded ==
    UNION {{Chain(n)[k] : k \in DOMAIN Chain(n)} : n \in Names}
      \cup UNION {{last.symbols[n].chain[k] : k \in DOMAIN last.symbols[n].chain} : n \in Names}

\* C16 as claimed: the mangled name of a declaration is determined by its name,
\* builtin flag, return type and ordered parameter types alone; in particular
\* it is the same before and after a body is attached.
C16_SameAfterBody ==
    \A a, b \in Recorded :
        (/\ a.name = b.name
         /\ a.builtin = b.builtin
         /\ a.returnType = b.returnType
         /\ TypesOf(a.parameters) = TypesOf(b.parameters)) =>
            mangledName(a) = mangledName(b)

\* C16 as amended: the mangled name is determined by the name, the builtin
\* flag, whether a body is attached, the return type and the ordered parameter
\* types. Attaching a body leaves the mangled name of a declaration that is no
\* builtin, and of 'main', as it was; a builtin other than 'main' has its
\* literal name before and a different, mangled one after.
C16_BodyCounts ==
    /\ \A a, b \in Recorded :
          (/\ a.name = b.name
           /\ a.builtin = b.builtin
           /\ a.definition = b.definition
           /\ a.returnType = b.returnType
           /\ TypesOf(a.parameters) = TypesOf(b.parameters)) =>
              mangledName(a) = mangledName(b)
    /\ last.op = "setDefinition" =>
          \A k \in DOMAIN ChainBefore :
              (~ChainBefore[k].definition /\ Chain(last.name)[k].definition) =>
                  IF ~ChainBefore[k].builtin \/ last.name = "main"
                      THEN mangledName(Chain(last.name)[k]) = mangledName(ChainBefore[k])
                      ELSE /\ mangledName(ChainBefore[k]) = characters(last.name)
                           /\ mangledName(Chain(last.name)[k]) # characters(last.name)

\* a body was attached to the builtin '$foo' of one parameter
C16_Witness ==
    /\ last.op = "setDefinition"
    /\ last.name = "$foo"
    /\ \E k \in DOMAIN ChainBefore :
          /\ ~ChainBefore[k].definition
          /\ Chain("$foo")[k].definition
          /\ Chain("$foo")[k].builtin
          /\ Len(Chain("$foo")[k].parameters) = 1

\* a name starts with '$'
Dollar(name) == characters(name)[1] = "$"

\* the place in a mangled name right after the separator
AfterSeparator(name) ==
    LET base == WithoutDollar(characters(name))
    IN  Len(base) + (IF base[Len(base)] = "_" THEN 2 ELSE 1) + 1

\* C17: in a mangled name the marker 'Q' stands right after the separator
\* exactly when a leading '$' was removed from the name, and no function whose
\* name does not start with '$' gets the mangled name of a function whose name
\* does.
C17_Marker ==
    MangleCalled =>
        /\ ~Unmangled(Mangled) =>
              (last.out[AfterSeparator(Mangled.name)] = "Q" <=> Dollar(Mangled.name))
        /\ Dollar(Mangled.name) =>
              \A n \in Names : \A k \in DOMAIN Chain(n) :
                  ~Dollar(n) => mangledName(Chain(n)[k]) # last.out

\* '$foo' was mangled while 'foo' stood declared with the same signature
C17_Witness ==
    /\ MangleCalled
    /\ Mangled.name = "$foo"
    /\ ~Unmangled(Mangled)
    /\ \E k \in DOMAIN Chain("foo") :
          /\ Chain("foo")[k].returnType = Mangled.returnType
          /\ TypesOf(Chain("foo")[k].parameters) = TypesOf(Mangled.parameters)

\* the place (from 1) of the first member of a generic type's family the
\* concrete type coerces to, 0 when it coerces to none
FirstFit(concrete, generic, allowNarrowing) ==
    LET family == coercibleTypes(generic)
        fits == {i \in DOMAIN family : canCoerceTo(concrete, family[i], allowNarrowing)}
    IN  IF fits = {} THEN 0 ELSE CHOOSE i \in fits : \A j \in fits : i <= j

\* the last operation resolved a call against the declaration Called
CallMade == last.op = "determineFinalTypes"

\* the declaration the call was resolved against
Called == Chain(last.name)[last.result]

\* the places of the generic parameters of a declaration
GenericPlaces(decl) == {i \in DOMAIN decl.parameters : isGeneric(decl.parameters[i].type)}

\* the place of the first generic parameter of a declaration that has one
FirstGeneric(decl) == CHOOSE i \in GenericPlaces(decl) : \A j \in GenericPlaces(decl) : i <= j

\* the family member the i-th argument of the call picks for the i-th parameter
ArgFit(i) == FirstFit(last.out.arguments[i], Called.parameters[i].type, TRUE)

\* C18 as claimed: the argument of the first generic parameter fixes the
\* family index, and a call in which a later generic parameter's argument
\* resolves to another index is reported as no match by determineFinalTypes.
C18_LaterMismatchRejected ==
    (CallMade /\ GenericPlaces(Called) # {}) =>
        /\ last.out.final.ok =>
              last.out.final.outParameterTypes[FirstGeneric(Called)]
                = coercibleTypes(Called.parameters[FirstGeneric(Called)].type)
                                [ArgFit(FirstGeneric(Called))]
        /\ (\E i \in GenericPlaces(Called) : ArgFit(i) # ArgFit(FirstGeneric(Called))) =>
              ~last.out.final.ok

\* C18 as amended: the argument of the first generic parameter fixes the
\* family index (narrowing allowed); determineFinalTypes reports no match
\* exactly when that argument coerces to no member of the family, or the
\* return type is generic and no parameter is; the arguments of the later
\* generic parameters are not looked at, these parameters and a generic return
\* type being resolved to the member at the index the first one fixed.
C18_FirstGenericDecides ==
    CallMade =>
        LET g == IF GenericPlaces(Called) = {} THEN 0 ELSE ArgFit(FirstGeneric(Called))
        IN  /\ last.out.final.ok <=>
                  IF GenericPlaces(Called) = {} THEN ~isGeneric(Called.returnType) ELSE g # 0
            /\ last.out.final.ok =>
                  /\ last.out.final.outParameterTypes
                        = [i \in DOMAIN Called.parameters |->
                              ResolvedAt(Called.parameters[i].type, g)]
                  /\ last.out.final.outReturnType = ResolvedAt(Called.returnType, g)

\* foo($genVType, $genVType) was called with (float3, float2): the index is 1
\* and both parameters resolve to float3
C18_Witness ==
    /\ CallMade
    /\ TypesOf(Called.parameters) = <<"$genVType", "$genVType">>
    /\ last.out.arguments = <<"float3", "float2">>
    /\ last.out.final.ok
    /\ last.out.final.outParameterTypes = <<"float3", "float3">>
    /\ coercibleTypes("$genVType")[1 + 1] = "float3"

\* the generic parameters of a declared list of the candidate's length do not
\* all resolve, without narrowing, to one family index against the candidate's types
Inconsistent(params, otherParams) ==
    LET places == {i \in DOMAIN otherParams : isGeneric(otherParams[i].type)}
        fit(i) == FirstFit(params[i].type, otherParams[i].type, FALSE)
    IN  \E i \in places : fit(i) = 0 \/ \E j \in places : fit(j) # fit(i)

\* C19: a candidate list matches a declared list only if every generic
\* parameter of the declared list resolves, without narrowing, to one and the
\* same family index; a generic parameter with another index than an earlier
\* one, or with none, makes the lists not match, and a candidate that for this
\* reason matches no declaration becomes a new overload without any error.
C19_ConsistentIndex ==
    (Validated /\ last.symbols[last.name].kind # "variable") =>
        LET differs(k) ==
                \/ Len(ChainBefore[k].parameters) # Len(last.checked)
                \/ Inconsistent(last.checked, ChainBefore[k].parameters)
        IN  /\ \A k \in DOMAIN ChainBefore :
                  differs(k) => ~parameters_match(last.checked, ChainBefore[k].parameters)
            /\ (\A k \in DOMAIN ChainBefore : differs(k)) =>
                  /\ last.ok
                  /\ last.created
                  /\ last.errors = <<>>

\* foo(float2, float3) was declared after foo($genType, $genType) and became a
\* new overload
C19_Witness ==
    /\ Validated
    /\ TypesOf(last.checked) = <<"float2", "float3">>
    /\ \E k \in DOMAIN ChainBefore :
          TypesOf(ChainBefore[k].parameters) = <<"$genType", "$genType">>
    /\ last.created
    /\ last.errors = <<>>

\* the indices (from 0) of the family members the resolved type coerces to
Fits ==
    LET family == coercibleTypes(last.out.genericType)
    IN  {i \in 0..(Len(family) - 1) :
            canCoerceTo(last.out.concreteType, family[i + 1], last.out.allowNarrowing)}

\* C20: find_generic_index returns the smallest index of a family member the
\* concrete type coerces to, narrowing counted only when allowNarrowing is
\* set, and -1 exactly when it coerces to none; of several members the first wins.
C20_FirstWins ==
    last.op = "find_generic_index" =>
        /\ last.out.index = -1 <=> Fits = {}
        /\ Fits # {} =>
              /\ last.out.index \in Fits
              /\ \A i \in Fits : last.out.index <= i

\* half2 against the family [float2, half2]: it coerces to both and the index is 0
C20_Witness ==
    /\ last.op = "find_generic_index"
    /\ last.out.concreteType = "half2"
    /\ last.out.genericType = "$genFHType"
    /\ ~last.out.allowNarrowing
    /\ Fits = {0, 1}
    /\ last.out.index = 0

\* the last operation was a Convert whose parameter check passed
ParametersChecked ==
    /\ last.op = "Convert"
    /\ \E i \in DOMAIN last.ran : last.ran[i] \in {"main", "existing"}

\* the role the i-th parameter of a 'main' of a runtime effect is to get: a
\* float2 is the coordinates, the first parameter of a colour type the source
\* colour, the second the destination colour, any other parameter has none
InferredRole(parameters, i) ==
    LET coloursBefore ==
            Cardinality({j \in 1..(i - 1) : parameters[j].type \in {"half4", "float4"}})
    IN  IF parameters[i].type = "float2" THEN SK_MAIN_COORDS_BUILTIN
        ELSE IF parameters[i].type \in {"half4", "float4"} /\ coloursBefore = 0
            THEN SK_INPUT_COLOR_BUILTIN
        ELSE IF parameters[i].type \in {"half4", "float4"} /\ coloursBefore = 1
            THEN SK_DEST_COLOR_BUILTIN
        ELSE NoBuiltin

\* C21: under the runtime-effect kinds other than the mesh kinds the role
\* inference tags every float2 parameter of 'main' as the coordinates and its
\* half4 and float4 parameters, in declaration order, as source colour then
\* destination colour; a third parameter of a colour type gets no role and has
\* the modifiers the normalisation of 'in' left it; the parameters of a
\* function not named 'main' get no role.
C21_Roles ==
    (ParametersChecked /\ config.fKind \in MainKinds) =>
        \A i \in DOMAIN last.checked :
            /\ last.checked[i].builtin =
                  IF last.name = "main" THEN InferredRole(last.parameters, i) ELSE NoBuiltin
            /\ last.checked[i].flags = NormalisedFlags(last.parameters[i])
            /\ last.checked[i].type = last.parameters[i].type

\* 'main' was declared with three parameters of a colour type: source,
\* destination, and no role for the third
C21_Witness ==
    /\ ParametersChecked
    /\ last.name = "main"
    /\ TypesOf(last.parameters) = <<"half4", "half4", "half4">>
    /\ last.checked[1].builtin = SK_INPUT_COLOR_BUILTIN
    /\ last.checked[2].builtin = SK_DEST_COLOR_BUILTIN
    /\ last.checked[3].builtin = NoBuiltin

\* a parameter list as it reads once every 'in' that stands without 'out' is left out
WithoutIn(parameters) ==
    [i \in DOMAIN parameters |->
        [parameters[i] EXCEPT !.flags =
            IF "in" \in @ /\ "out" \notin @ THEN @ \ {"in"} ELSE @]]

\* C22: the normalisation removes 'in' from every parameter that has 'in' and
\* not 'out' and changes no other flag, a parameter with 'in' and 'out' or with
\* 'out' alone keeping its flags; so Convert gives a candidate written with
\* 'in' the outcome it gives the same candidate written without it, against an
\* earlier declaration written without it as well.
C22_ImplicitIn ==
    ParametersChecked =>
        /\ \A i \in DOMAIN last.checked :
              /\ last.checked[i].flags = WithoutIn(last.parameters)[i].flags
              /\ ("out" \in last.parameters[i].flags) =>
                    last.checked[i].flags = last.parameters[i].flags
        /\ LET plain == convert_checks(config, last.symbols, last.name, last.modifiers,
                                       WithoutIn(last.parameters), last.returnType)
           IN  /\ last.ok = plain.ok
               /\ last.errors = plain.errors
               /\ last.checked = plain.parameters
               /\ (last.ok /\ ~last.created) => last.result = plain.existing

\* 'float foo(in float)' was declared after 'float foo(float)' and Convert
\* returned the earlier declaration
C22_Witness ==
    /\ Validated
    /\ Len(last.parameters) = 1
    /\ last.parameters[1].flags = {"in"}
    /\ Found # 0
    /\ ChainBefore[Found].parameters[1].flags = {}
    /\ last.ok
    /\ ~last.created
    /\ last.result = Found

\* the return types Convert refuses under the configuration: arrays; under the
\* strict mode also types holding an array; outside builtin code also types
\* whose component type is opaque
RefusedReturn(returnType) ==
    \/ returnType \in ArrayTypes
    \/ config.strictES2Mode /\ isOrContainsArray(returnType)
    \/ ~config.fIsBuiltinCode /\ componentType(returnType) \in OpaqueTypes

\* C23: Convert rejects a declaration and records nothing when its return type
\* is an array, when the strict mode is on and the return type is or contains
\* an array, and when the code is not builtin code and the component type of
\* the return type is opaque; every other return type passes the return-type
\* check, an opaque one in builtin code included.
C23_ReturnType ==
    (last.op = "Convert" /\ Len(last.ran) >= 2) =>
        IF RefusedReturn(last.returnType)
            THEN /\ ~last.ok
                 /\ last.ran = <<"modifiers", "return">>
                 /\ Len(last.errors) = 1
                 /\ symbols = last.symbols
                 /\ owned = last.owned
            ELSE Len(last.ran) > 2

\* a function returning sampler2D was declared in builtin code
C23_Witness ==
    /\ last.op = "Convert"
    /\ config.fIsBuiltinCode
    /\ last.returnType = "sampler2D"
    /\ last.created
    /\ Chain("foo")[last.result].returnType = "sampler2D"

\* what a Convert that failed left behind: one error, and nothing recorded
FailedWith(error) ==
    /\ ~last.ok
    /\ last.errors = <<error>>
    /\ symbols = last.symbols
    /\ owned = last.owned

\* C24: Convert runs its checks in the order function modifiers, return type,
\* parameters, shape of 'main', lookup of an existing declaration, and stops at
\* the first that fails: of a candidate that fails several checks only the
\* first failure is reported, the parameters are normalised and given roles
\* only once the modifier and return-type checks passed, and the symbol table
\* decides only once the signature and entry-point checks passed.
C24_Order ==
    (last.op = "Convert" /\ last.name = "main" /\ config.fKind \in MainKinds) =>
        IF {"inline", "noinline"} \subseteq last.modifiers
            THEN /\ FailedWith("functions cannot be both 'inline' and 'noinline'")
                 /\ last.checked = last.parameters
        ELSE IF RefusedReturn(last.returnType)
            THEN /\ FailedWith("functions may not return type")
                 /\ last.checked = last.parameters
        ELSE IF \E i \in DOMAIN last.parameters : last.parameters[i].type = "shader"
            THEN FailedWith("parameters of this type not allowed")
        ELSE IF ~MainShape(config.fKind, last.returnType, last.parameters)
            THEN /\ FailedWith("'main' parameters must be (float2, (vec4|float4|half4)?)")
                 /\ \A i \in DOMAIN last.checked :
                        last.checked[i].builtin = InferredRole(last.parameters, i)
        ELSE IF last.symbols["main"].kind = "variable"
            THEN FailedWith("symbol was already defined")
        ELSE last.ok

\* a candidate failing the modifier, return-type and parameter checks, under a
\* name a variable has, was turned down for its modifiers
C24_Witness ==
    /\ last.op = "Convert"
    /\ last.modifiers = {"inline", "noinline"}
    /\ last.returnType = "float[2]"
    /\ TypesOf(last.parameters) = <<"float2", "shader">>
    /\ last.symbols["main"].kind = "variable"
    /\ last.errors = <<"functions cannot be both 'inline' and 'noinline'">>

\* the characters of a mangled name from place a to place b
Piece(a, b) == SubSeq(last.out, a, b)

\* C25: in a mangled name the function name (without its leading '$') is
\* followed by "_", or by "x_" when the name ends in '_', so that the last
\* character of the name and the character after it are never both '_'.
C25_Separator ==
    (MangleCalled /\ ~Unmangled(Mangled)) =>
        LET base == WithoutDollar(characters(Mangled.name))
            n == Len(base)
        IN  /\ Piece(1, n) = base
            /\ IF base[n] = "_"
                  THEN Piece(n + 1, n + 2) = <<"x", "_">>
                  ELSE Piece(n + 1, n + 1) = <<"_">>
            /\ ~(last.out[n] = "_" /\ last.out[n + 1] = "_")
            /\ Len(last.out) > n + (IF base[n] = "_" THEN 2 ELSE 1)

\* 'foo_' was mangled to a name starting with foo_x_
C25_Witness ==
    /\ MangleCalled
    /\ Mangled.name = "foo_"
    /\ Piece(1, 6) = <<"f", "o", "o", "_", "x", "_">>

\* the k-th declaration the last Convert started from is a prototype of the
\* program's own code with the candidate's signature
SamePrototype(k) ==
    LET decl == ChainBefore[k]
    IN  /\ ~decl.builtin
        /\ ~decl.definition
        /\ decl.modifiers = last.modifiers
        /\ decl.returnType = last.returnType
        /\ TypesOf(decl.parameters) = TypesOf(last.parameters)
        /\ \A i \in DOMAIN decl.parameters :
              decl.parameters[i].flags = NormalisedFlags(last.parameters[i])

\* C26: declaring again, any number of times, a prototype of the program's own
\* code that has no body, with the same signature, returns that declaration
\* each time and leaves the declarations of the name, with their parameters,
\* return types and modifiers, as they were.
C26_Redeclared ==
    last.op = "Convert" =>
        \A k \in DOMAIN ChainBefore :
            SamePrototype(k) =>
                /\ last.ok
                /\ ~last.created
                /\ last.result = k
                /\ Chain(last.name) = ChainBefore
                /\ symbols = last.symbols

\* foo(float) was declared for the fourth time and is still the one
\* declaration of foo
C26_Witness ==
    /\ last.op = "Convert"
    /\ DOMAIN ChainBefore = {1}
    /\ SamePrototype(1)
    /\ Len(last.parameters) = 1
    /\ Cardinality(last.owned) = 3
    /\ last.result = 1
    /\ Len(Chain("foo")) = 1

\* a declared parameter type with its generic family replaced by the first
\* member the candidate type coerces to without narrowing ("none" when there
\* is no such member)
FirstCoercible(concrete, declared) ==
    IF ~isGeneric(declared) THEN declared
    ELSE IF FirstFit(concrete, declared, FALSE) = 0 THEN "none"
    ELSE coercibleTypes(declared)[FirstFit(concrete, declared, FALSE)]

\* the candidate list is, type by type, the declared list with its generic
\* types so replaced
ExactMatch(params, otherParams) ==
    /\ Len(params) = Len(otherParams)
    /\ \A i \in DOMAIN params :
          params[i].type = FirstCoercible(params[i].type, otherParams[i].type)

\* C27: a candidate list matches a declared list only if the two have the same
\* length and every candidate type is exactly the declared type, a generic
\* declared type standing for the first member of its family the candidate
\* type coerces to without narrowing; so a candidate that exactly matches no
\* declaration of its name, one whose type coerces to an earlier member and is
\* a later one included, is recorded as a new overload.
C27_ExactMatch ==
    (Validated /\ last.symbols[last.name].kind # "variable") =>
        /\ \A k \in DOMAIN ChainBefore :
              parameters_match(last.checked, ChainBefore[k].parameters) =>
                  ExactMatch(last.checked, ChainBefore[k].parameters)
        /\ (\A k \in DOMAIN ChainBefore :
                ~ExactMatch(last.checked, ChainBefore[k].parameters)) =>
              /\ last.ok
              /\ last.created
              /\ Chain(last.name) = Append(ChainBefore, Chain(last.name)[last.result])

\* foo(half2) was declared after foo($genFHType), whose family is float2,
\* half2, and became a new overload
C27_Witness ==
    /\ Validated
    /\ TypesOf(last.checked) = <<"half2">>
    /\ \E k \in DOMAIN ChainBefore : TypesOf(ChainBefore[k].parameters) = <<"$genFHType">>
    /\ FirstFit("half2", "$genFHType", FALSE) = 1
    /\ coercibleTypes("$genFHType")[2] = "half2"
    /\ last.created

\* the members of a generic family a type coerces to without narrowing
CoercibleMembers(concrete, generic) ==
    {i \in DOMAIN coercibleTypes(generic) :
        canCoerceTo(concrete, coercibleTypes(generic)[i], FALSE)}

\* the family index the candidate's parameters fix against the declaration
\* found (0 when that declaration has no generic parameter)
ParameterIndex ==
    LET decl == ChainBefore[Found]
        places == {i \in DOMAIN decl.parameters : isGeneric(decl.parameters[i].type)}
    IN  IF places = {} THEN 0
        ELSE LET i == CHOOSE p \in places : TRUE
             IN  FirstFit(last.checked[i].type, decl.parameters[i].type, FALSE)

\* C28: when the declaration a candidate's parameters match has a generic
\* return type, 'differ only in return type' is reported exactly when the
\* candidate's return type coerces, without narrowing, to no member of that
\* family; a return type that is another member than the one at the index the
\* parameters fixed is not reported.
C28_ReturnFamily ==
    (/\ Validated
     /\ last.symbols[last.name].kind = "function"
     /\ Found # 0
     /\ isGeneric(ChainBefore[Found].returnType)) =>
        LET members == CoercibleMembers(last.returnType, ChainBefore[Found].returnType)
        IN  /\ (last.errors = <<"differ only in return type">>) <=> (members = {})
            /\ (members # {} /\ ParameterIndex \notin members) =>
                  last.errors \in {<<>>, <<"duplicate definition">>,
                                   <<"modifiers differ between declaration and definition">>}

\* 'float3 foo(float2)' was declared after the builtin '$genType foo($genType)':
\* the parameter fixes the second member, the return type is the third, and
\* the error is the one of a duplicate, not of a differing return type
C28_Witness ==
    /\ Validated
    /\ Found # 0
    /\ TypesOf(ChainBefore[Found].parameters) = <<"$genType">>
    /\ ChainBefore[Found].returnType = "$genType"
    /\ TypesOf(last.checked) = <<"float2">>
    /\ last.returnType = "float3"
    /\ ParameterIndex = 2
    /\ CoercibleMembers("float3", "$genType") = {3}
    /\ last.errors = <<"duplicate definition">>

\* the declarations the last Convert started from whose parameters match the
\* candidate's
Matching == {k \in DOMAIN ChainBefore : parameters_match(last.checked, ChainBefore[k].parameters)}

\* the first of them in the overload chain
FirstMatching == CHOOSE k \in Matching : \A j \in Matching : k <= j

\* what the lookup makes of one declaration: the first of the three
\* differences it finds, or nothing
Verdict(decl) ==
    IF ~ReturnMatches(last.returnType, decl.returnType)
        THEN <<"differ only in return type">>
    ELSE IF ~SameModifiers(last.checked, decl)
        THEN <<"modifiers differ between declaration and definition">>
    ELSE IF decl.definition \/ decl.builtin
        THEN <<"duplicate definition">>
    ELSE <<>>

\* C29: the lookup of an existing declaration is decided by the first
\* declaration of the overload chain whose parameters match the candidate,
\* whatever the declarations after it are; against that declaration the
\* return type is compared first, then the parameter modifiers, then the
\* presence of a body, so that a candidate that differs in return type and in
\* modifiers gets the return-type error.
C29_FirstDecides ==
    (Validated /\ last.symbols[last.name].kind = "function" /\ Matching # {}) =>
        /\ last.errors = Verdict(ChainBefore[FirstMatching])
        /\ last.ok <=> last.errors = <<>>
        /\ last.ok => last.result = FirstMatching
        /\ ~last.created

\* 'int foo(out float2)' was declared after 'float foo(float2)' and
\* 'int foo($genType)': it matches both, differs from the first in return type
\* and modifiers, from the second in modifiers alone, and gets the return-type
\* error
C29_Witness ==
    /\ Validated
    /\ Matching = {1, 2}
    /\ last.returnType = "int"
    /\ last.checked[1].flags = {"out"}
    /\ ChainBefore[1].returnType = "float"
    /\ ChainBefore[1].parameters[1].flags = {}
    /\ ChainBefore[2].returnType = "int"
    /\ TypesOf(ChainBefore[2].parameters) = <<"$genType">>
    /\ last.errors = <<"differ only in return type">>

\* the family members (from 1) a type coerces to, narrowing conversions included
NarrowingFits(concrete, generic) ==
    {i \in DOMAIN coercibleTypes(generic) :
        canCoerceTo(concrete, coercibleTypes(generic)[i], TRUE)}

\* the least element of a non-empty set of numbers
Least(S) == CHOOSE i \in S : \A j \in S : i <= j

\* C30: a call determineFinalTypes accepts gets one final type per argument:
\* the parameter's own type where it is not generic, and for every generic
\* parameter the member of its family at the index that the argument of the
\* first generic parameter picked, narrowing conversions allowed; the call is
\* reported as no match, with no return type set, when that argument coerces
\* to no member of the family and when the return type is generic while no
\* parameter is.
C30_FinalTypes ==
    CallMade =>
        LET final == last.out.final
            generic == GenericPlaces(Called)
            first == Least(generic)
            picks == NarrowingFits(last.out.arguments[first], Called.parameters[first].type)
        IN  /\ final.ok =>
                  /\ Len(final.outParameterTypes) = Len(last.out.arguments)
                  /\ \A i \in DOMAIN Called.parameters \ generic :
                        final.outParameterTypes[i] = Called.parameters[i].type
                  /\ \A i \in generic :
                        final.outParameterTypes[i]
                            = coercibleTypes(Called.parameters[i].type)[Least(picks)]
            /\ (generic # {} /\ picks = {}) => ~final.ok
            /\ (generic = {} /\ isGeneric(Called.returnType)) => ~final.ok
            /\ ~final.ok =>
                  /\ final.outReturnType = NoType
                  /\ \/ generic # {} /\ picks = {}
                     \/ generic = {} /\ isGeneric(Called.returnType)

\* '$genHType foo(half)' was called with a half: there is no generic parameter
\* to fix the return type, and the call is no match
C30_Witness ==
    /\ CallMade
    /\ TypesOf(Called.parameters) = <<"half">>
    /\ Called.returnType = "$genHType"
    /\ last.out.arguments = <<"half">>
    /\ ~last.out.final.ok
    /\ last.out.final.outParameterTypes = <<"half">>

=============================================================================
